---- MODULE Spec2Model ----
(***************************************************************************)
(* Model of the extraction-and-aggregation pipeline of pdf_parser.py:      *)
(* PDFParser.extract_text_from_pdf, PDFParser.parse_financial_data,        *)
(* PDFParser.extract_transactions, combine_financial_data and the driver   *)
(* process_pdf_files.                                                      *)
(*                                                                         *)
(* A text is a sequence of characters.  TLA+ strings are ASCII, so every   *)
(* Hangul syllable of the source is written as its romanisation, one       *)
(* string per syllable: 급여 is <<"geup", "yeo">>, 원 is "won".  ASCII      *)
(* characters stand for themselves.                                        *)
(***************************************************************************)
EXTENDS Integers, Sequences, FiniteSets, TLC

VARIABLES uploaded_files, idx, text, data, transactions, all_data, result, pc,
          save_files, filename, json_data

\* the variables of process_pdf_to_json that process_pdf_files does not have
json_vars == <<save_files, filename, json_data>>

vars == <<uploaded_files, idx, text, data, transactions, all_data, result, pc, json_vars>>

(***************************************************************************)
(* Bounds of the model.                                                    *)
(***************************************************************************)
\* pages of one single uploaded document
MaxPages == 3
\* documents of one upload of several
MaxDocs == 3

(***************************************************************************)
(* Python values.                                                          *)
(***************************************************************************)
\* None, and a value that is not None
None == <<>>
Some(x) == <<x>>
Val(o) == o[1]

RECURSIVE Concat(_)
\* the concatenation of a sequence of strings
Concat(parts) ==
  IF parts = <<>> THEN <<>> ELSE Head(parts) \o Concat(Tail(parts))

\* the sequences over S of length at most n
SeqUpTo(S, n) == UNION {[1..k -> S] : k \in 0..n}

(***************************************************************************)
(* Character classes of the regular expressions.                           *)
(***************************************************************************)
\* \s
Whitespace == {" ", "\n", "\t"}
\* [0-9]; also \d, the alphabet of the model having no other digits
AsciiDigits == {"0", "1", "2", "3", "4", "5", "6", "7", "8", "9"}
\* sys.int_info.default_max_str_digits: int() of a string of more digits raises
\* ValueError
MaxStrDigits == 4300
\* one item of the alphabet that stands for a run of MaxStrDigits + 1 digits
\* "9": the unbounded classes [0-9]+ and [0-9,]+ take the run whole
LongDigits == "9{4301}"
\* what [0-9] meets in a text: a digit, or the long run of them
Digits == AsciiDigits \cup {LongDigits}
\* [A-Z]
UpperCase == {"A", "B", "C", "D", "E", "F", "G", "H", "I", "J", "K", "L", "M",
              "N", "O", "P", "Q", "R", "S", "T", "U", "V", "W", "X", "Y", "Z"}
\* [+-]
Signs == {"+", "-"}
\* [-/]
DateSeparators == {"-", "/"}
\* [0-9,]
AmountChars == Digits \cup {","}
\* [:\s]
ColonOrSpace == Whitespace \cup {":"}

(***************************************************************************)
(* Regular expressions: a sequence of items, each a character class with   *)
(* a greedy repetition min..max (max unused when unbounded), of which the  *)
(* items gfrom..gto form group 1.                                          *)
(***************************************************************************)
Item(cls, min, max) == [cls |-> cls, min |-> min, max |-> max, unbounded |-> FALSE]
AtLeast(cls, min) == [cls |-> cls, min |-> min, max |-> min, unbounded |-> TRUE]
\* a literal word, one item per character
Lit(w) == [i \in 1..Len(w) |-> Item({w[i]}, 1, 1)]
\* \s*
Spaces == <<AtLeast(Whitespace, 0)>>
\* [:\s]*
ColonSpaces == <<AtLeast(ColonOrSpace, 0)>>
\* ([0-9,]+)
AmountGroup == <<AtLeast(AmountChars, 1)>>
\* ([0-9]+)
ScoreGroup == <<AtLeast(Digits, 1)>>
\* ([A-Z][+-]?)
GradeGroup == <<Item(UpperCase, 1, 1), Item(Signs, 0, 1)>>
\* prefix(group)
Pat(prefix, group) ==
  [items |-> prefix \o group, gfrom |-> Len(prefix) + 1, gto |-> Len(prefix) + Len(group)]

NoMatch == <<>>

RECURSIVE RunLength(_, _, _, _)
\* how many characters of s after offset pos are in cls, at most limit
RunLength(cls, s, pos, limit) ==
  IF limit = 0 \/ pos >= Len(s) THEN 0
  ELSE IF s[pos + 1] \notin cls THEN 0
  ELSE 1 + RunLength(cls, s, pos + 1, limit - 1)

RECURSIVE MatchItems(_, _, _, _)
RECURSIVE TryCount(_, _, _, _, _)
\* The backtracking matcher of re: the items k.. of a pattern matched at
\* offset pos of s.  A match is the sequence of the offsets at which the
\* items k, k+1, ... start, followed by the offset at which the match ends.
MatchItems(items, k, s, pos) ==
  IF k > Len(items) THEN <<pos>>
  ELSE LET it == items[k]
           most == RunLength(it.cls, s, pos, IF it.unbounded THEN Len(s) ELSE it.max)
       IN  TryCount(items, k, s, pos, most)

\* greedy repetition: the longest count first, then the shorter ones
TryCount(items, k, s, pos, n) ==
  IF n < items[k].min THEN NoMatch
  ELSE LET rest == MatchItems(items, k + 1, s, pos + n)
       IN  IF rest # NoMatch THEN <<pos>> \o rest
           ELSE TryCount(items, k, s, pos, n - 1)

\* the least element of a non-empty set of offsets
Leftmost(offsets) == CHOOSE pos \in offsets : \A other \in offsets : pos <= other

\* the offsets of s at which a match of p can start: any, when the first
\* item of p may be empty, else those of the characters of its class
StartOffsets(p, s) ==
  IF p.items[1].min = 0 THEN 0..Len(s)
  ELSE {pos \in 0..(Len(s) - 1) : s[pos + 1] \in p.items[1].cls}

\* re.search(p, s): the match at the leftmost offset at which p matches
Search(p, s) ==
  LET starts == {pos \in StartOffsets(p, s) : MatchItems(p.items, 1, s, pos) # NoMatch}
  IN  IF starts = {} THEN NoMatch ELSE MatchItems(p.items, 1, s, Leftmost(starts))
\* re.match(p, s): a match at the start of s
Match(p, s) == MatchItems(p.items, 1, s, 0)
\* match.group(1)
Group1(p, s, m) == SubSeq(s, m[p.gfrom] + 1, m[p.gto + 1])

\* word occurs in s at offset pos
OccursAt(word, s, pos) ==
  /\ pos + Len(word) <= Len(s)
  /\ \A i \in 1..Len(word) : s[pos + i] = word[i]

\* word in s, of two strings; a pattern source is the string of its items
Contains(s, word) == \E pos \in 0..Len(s) : OccursAt(word, s, pos)

(***************************************************************************)
(* Numbers.                                                                *)
(***************************************************************************)
\* str.replace(',', '')
RemoveCommas(s) == SelectSeq(s, LAMBDA c : c # ",")

DigitValue(c) ==
  CHOOSE d \in 0..9 : <<"0", "1", "2", "3", "4", "5", "6", "7", "8", "9">>[d + 1] = c

Unsigned(s) == IF s # <<>> /\ s[1] \in Signs THEN Tail(s) ELSE s

\* the number of digits of a string of digits
DigitCount(s) ==
  Len(s) + MaxStrDigits * Cardinality({i \in 1..Len(s) : s[i] = LongDigits})

\* int(s) returns: s is an optional sign and at least one digit, and no more
\* digits than the interpreter converts
IntParses(s) ==
  /\ Unsigned(s) # <<>>
  /\ \A i \in 1..Len(Unsigned(s)) : Unsigned(s)[i] \in Digits
  /\ DigitCount(Unsigned(s)) <= MaxStrDigits

RECURSIVE DigitsValue(_, _)
DigitsValue(s, acc) ==
  IF s = <<>> THEN acc ELSE DigitsValue(Tail(s), 10 * acc + DigitValue(Head(s)))

\* int(s), for an s that parses
IntValue(s) ==
  IF s[1] = "-" THEN 0 - DigitsValue(Unsigned(s), 0) ELSE DigitsValue(Unsigned(s), 0)

RECURSIVE Gcd(_, _)
Gcd(a, b) == IF b = 0 THEN a ELSE Gcd(b, a % b)
Abs(a) == IF a < 0 THEN 0 - a ELSE a
\* mutant of TrueDiv: a // b
TrueDiv_Floor(a, b) == [num |-> a \div b, den |-> 1]

\* a / b of two ints, b > 0: the quotient, as a fraction in lowest terms
TrueDiv(a, b) ==
  LET g == Gcd(Abs(a), b) IN [num |-> a \div g, den |-> b \div g]

(***************************************************************************)
(* PDFParser.parse_financial_data                                          *)
(***************************************************************************)
income_patterns == <<
      Pat(Lit(<<"geup", "yeo">>) \o ColonSpaces, AmountGroup),   \* 53: 급여[:\s]*([0-9,]+)
      Pat(Lit(<<"su", "ip">>) \o ColonSpaces, AmountGroup),   \* 54: 수입[:\s]*([0-9,]+)
      Pat(Lit(<<"wol", "geup">>) \o ColonSpaces, AmountGroup),   \* 55: 월급[:\s]*([0-9,]+)
      Pat(Lit(<<"wol">>) \o Spaces \o Lit(<<"su", "ip">>) \o ColonSpaces, AmountGroup),   \* 56: 월\s*수입[:\s]*([0-9,]+)
      Pat(Lit(<<"wol">>) \o Spaces \o Lit(<<"so", "deuk">>) \o ColonSpaces, AmountGroup),   \* 57: 월\s*소득[:\s]*([0-9,]+)
      Pat(Lit(<<"yeon", "bong">>) \o ColonSpaces, AmountGroup),   \* 58: 연봉[:\s]*([0-9,]+)
      Pat(Lit(<<"yeon">>) \o Spaces \o Lit(<<"so", "deuk">>) \o ColonSpaces, AmountGroup)   \* 59: 연\s*소득[:\s]*([0-9,]+)
  >>

expense_patterns == <<
      Pat(Lit(<<"ji", "chul">>) \o ColonSpaces, AmountGroup),   \* 77: 지출[:\s]*([0-9,]+)
      Pat(Lit(<<"wol">>) \o Spaces \o Lit(<<"ji", "chul">>) \o ColonSpaces, AmountGroup),   \* 78: 월\s*지출[:\s]*([0-9,]+)
      Pat(Lit(<<"chong">>) \o Spaces \o Lit(<<"ji", "chul">>) \o ColonSpaces, AmountGroup),   \* 79: 총\s*지출[:\s]*([0-9,]+)
      Pat(Lit(<<"wol">>) \o Spaces \o Lit(<<"saeng", "hwal", "bi">>) \o ColonSpaces, AmountGroup),   \* 80: 월\s*생활비[:\s]*([0-9,]+)
      Pat(Lit(<<"go", "jeong">>) \o Spaces \o Lit(<<"ji", "chul">>) \o ColonSpaces, AmountGroup)   \* 81: 고정\s*지출[:\s]*([0-9,]+)
  >>

credit_patterns == <<
      Pat(Lit(<<"sin", "yong", "jeom", "su">>) \o ColonSpaces, ScoreGroup),   \* 100: 신용점수[:\s]*([0-9]+)
      Pat(Lit(<<"sin", "yong">>) \o Spaces \o Lit(<<"jeom", "su">>) \o ColonSpaces, ScoreGroup),   \* 101: 신용\s*점수[:\s]*([0-9]+)
      Pat(Lit(<<"K", "C", "B">>) \o ColonSpaces, ScoreGroup),   \* 102: KCB[:\s]*([0-9]+)
      Pat(Lit(<<"N", "I", "C", "E">>) \o ColonSpaces, ScoreGroup),   \* 103: NICE[:\s]*([0-9]+)
      Pat(Lit(<<"sin", "yong", "deung", "geup">>) \o ColonSpaces, GradeGroup),   \* 104: 신용등급[:\s]*([A-Z][+-]?)
      Pat(Lit(<<"sin", "yong">>) \o Spaces \o Lit(<<"deung", "geup">>) \o ColonSpaces, GradeGroup)   \* 105: 신용\s*등급[:\s]*([A-Z][+-]?)
  >>

\* mutant of asset_patterns: checking has no pattern for a bare 통장 or 계좌
asset_patterns_Narrow == [
  checking |-> <<
      Pat(Lit(<<"ip", "chul", "geum">>) \o ColonSpaces, AmountGroup),   \* 129: 입출금[:\s]*([0-9,]+)
      Pat(Lit(<<"hyeon", "geum">>) \o ColonSpaces, AmountGroup)   \* 131: 현금[:\s]*([0-9,]+)
    >>,
  savings |-> <<
      Pat(Lit(<<"jeok", "geum">>) \o ColonSpaces, AmountGroup),   \* 135: 적금[:\s]*([0-9,]+)
      Pat(Lit(<<"jeo", "chuk">>) \o ColonSpaces, AmountGroup),   \* 136: 저축[:\s]*([0-9,]+)
      Pat(Lit(<<"ye", "geum">>) \o ColonSpaces, AmountGroup),   \* 137: 예금[:\s]*([0-9,]+)
      Pat(Lit(<<"jeong", "gi", "ye", "geum">>) \o ColonSpaces, AmountGroup)   \* 138: 정기예금[:\s]*([0-9,]+)
    >>,
  investment |-> <<
      Pat(Lit(<<"tu", "ja">>) \o ColonSpaces, AmountGroup),   \* 141: 투자[:\s]*([0-9,]+)
      Pat(Lit(<<"jeung", "gwon">>) \o ColonSpaces, AmountGroup),   \* 142: 증권[:\s]*([0-9,]+)
      Pat(Lit(<<"ju", "sik">>) \o ColonSpaces, AmountGroup),   \* 143: 주식[:\s]*([0-9,]+)
      Pat(Lit(<<"peon", "deu">>) \o ColonSpaces, AmountGroup),   \* 144: 펀드[:\s]*([0-9,]+)
      Pat(Lit(<<"E", "T", "F">>) \o ColonSpaces, AmountGroup)   \* 145: ETF[:\s]*([0-9,]+)
    >>,
  pension |-> <<
      Pat(Lit(<<"yeon", "geum">>) \o ColonSpaces, AmountGroup),   \* 148: 연금[:\s]*([0-9,]+)
      Pat(Lit(<<"toe", "jik", "yeon", "geum">>) \o ColonSpaces, AmountGroup),   \* 149: 퇴직연금[:\s]*([0-9,]+)
      Pat(Lit(<<"gae", "in", "yeon", "geum">>) \o ColonSpaces, AmountGroup)   \* 150: 개인연금[:\s]*([0-9,]+)
    >>,
  isa |-> <<
      Pat(Lit(<<"I", "S", "A">>) \o ColonSpaces, AmountGroup),   \* 153: ISA[:\s]*([0-9,]+)
      Pat(Lit(<<"gae", "in", "hyeong", "toe", "jik", "yeon", "geum">>) \o ColonSpaces, AmountGroup),   \* 154: 개인형퇴직연금[:\s]*([0-9,]+)
      Pat(Lit(<<"I", "R", "P">>) \o ColonSpaces, AmountGroup)   \* 155: IRP[:\s]*([0-9,]+)
    >>,
  government |-> <<
      Pat(Lit(<<"cheong", "nyeon", "do", "yak", "gye", "jwa">>) \o ColonSpaces, AmountGroup),   \* 158: 청년도약계좌[:\s]*([0-9,]+)
      Pat(Lit(<<"hui", "mang", "du", "bae", "tong", "jang">>) \o ColonSpaces, AmountGroup),   \* 159: 희망두배통장[:\s]*([0-9,]+)
      Pat(Lit(<<"jeong", "bu", "ji", "won">>) \o ColonSpaces, AmountGroup),   \* 160: 정부지원[:\s]*([0-9,]+)
      Pat(Lit(<<"cheong", "nyeon", "hui", "mang", "jeok", "geum">>) \o ColonSpaces, AmountGroup),   \* 161: 청년희망적금[:\s]*([0-9,]+)
      Pat(Lit(<<"cheong", "nyeon", "nae", "il", "jeo", "chuk", "gye", "jwa">>) \o ColonSpaces, AmountGroup)   \* 162: 청년내일저축계좌[:\s]*([0-9,]+)
    >>
  ]

asset_patterns == [
  checking |-> <<
      Pat(Lit(<<"ip", "chul", "geum">>) \o ColonSpaces, AmountGroup),   \* 129: 입출금[:\s]*([0-9,]+)
      Pat(Lit(<<"tong", "jang">>) \o ColonSpaces, AmountGroup),   \* 130: 통장[:\s]*([0-9,]+)
      Pat(Lit(<<"hyeon", "geum">>) \o ColonSpaces, AmountGroup),   \* 131: 현금[:\s]*([0-9,]+)
      Pat(Lit(<<"gye", "jwa">>) \o ColonSpaces, AmountGroup)   \* 132: 계좌[:\s]*([0-9,]+)
    >>,
  savings |-> <<
      Pat(Lit(<<"jeok", "geum">>) \o ColonSpaces, AmountGroup),   \* 135: 적금[:\s]*([0-9,]+)
      Pat(Lit(<<"jeo", "chuk">>) \o ColonSpaces, AmountGroup),   \* 136: 저축[:\s]*([0-9,]+)
      Pat(Lit(<<"ye", "geum">>) \o ColonSpaces, AmountGroup),   \* 137: 예금[:\s]*([0-9,]+)
      Pat(Lit(<<"jeong", "gi", "ye", "geum">>) \o ColonSpaces, AmountGroup)   \* 138: 정기예금[:\s]*([0-9,]+)
    >>,
  investment |-> <<
      Pat(Lit(<<"tu", "ja">>) \o ColonSpaces, AmountGroup),   \* 141: 투자[:\s]*([0-9,]+)
      Pat(Lit(<<"jeung", "gwon">>) \o ColonSpaces, AmountGroup),   \* 142: 증권[:\s]*([0-9,]+)
      Pat(Lit(<<"ju", "sik">>) \o ColonSpaces, AmountGroup),   \* 143: 주식[:\s]*([0-9,]+)
      Pat(Lit(<<"peon", "deu">>) \o ColonSpaces, AmountGroup),   \* 144: 펀드[:\s]*([0-9,]+)
      Pat(Lit(<<"E", "T", "F">>) \o ColonSpaces, AmountGroup)   \* 145: ETF[:\s]*([0-9,]+)
    >>,
  pension |-> <<
      Pat(Lit(<<"yeon", "geum">>) \o ColonSpaces, AmountGroup),   \* 148: 연금[:\s]*([0-9,]+)
      Pat(Lit(<<"toe", "jik", "yeon", "geum">>) \o ColonSpaces, AmountGroup),   \* 149: 퇴직연금[:\s]*([0-9,]+)
      Pat(Lit(<<"gae", "in", "yeon", "geum">>) \o ColonSpaces, AmountGroup)   \* 150: 개인연금[:\s]*([0-9,]+)
    >>,
  isa |-> <<
      Pat(Lit(<<"I", "S", "A">>) \o ColonSpaces, AmountGroup),   \* 153: ISA[:\s]*([0-9,]+)
      Pat(Lit(<<"gae", "in", "hyeong", "toe", "jik", "yeon", "geum">>) \o ColonSpaces, AmountGroup),   \* 154: 개인형퇴직연금[:\s]*([0-9,]+)
      Pat(Lit(<<"I", "R", "P">>) \o ColonSpaces, AmountGroup)   \* 155: IRP[:\s]*([0-9,]+)
    >>,
  government |-> <<
      Pat(Lit(<<"cheong", "nyeon", "do", "yak", "gye", "jwa">>) \o ColonSpaces, AmountGroup),   \* 158: 청년도약계좌[:\s]*([0-9,]+)
      Pat(Lit(<<"hui", "mang", "du", "bae", "tong", "jang">>) \o ColonSpaces, AmountGroup),   \* 159: 희망두배통장[:\s]*([0-9,]+)
      Pat(Lit(<<"jeong", "bu", "ji", "won">>) \o ColonSpaces, AmountGroup),   \* 160: 정부지원[:\s]*([0-9,]+)
      Pat(Lit(<<"cheong", "nyeon", "hui", "mang", "jeok", "geum">>) \o ColonSpaces, AmountGroup),   \* 161: 청년희망적금[:\s]*([0-9,]+)
      Pat(Lit(<<"cheong", "nyeon", "nae", "il", "jeo", "chuk", "gye", "jwa">>) \o ColonSpaces, AmountGroup)   \* 162: 청년내일저축계좌[:\s]*([0-9,]+)
    >>
  ]

\* the regular expression of line 115
grade_pattern == Pat(<<>>, GradeGroup)

\* mutant of grade_to_score: the scores of A+ and A exchanged
grade_to_score_swapped == {
  <<<<"A", "+">>, 750>>, <<<<"A">>, 850>>, <<<<"A", "-">>, 700>>,
  <<<<"B", "+">>, 650>>, <<<<"B">>, 600>>, <<<<"B", "-">>, 550>>,
  <<<<"C", "+">>, 500>>, <<<<"C">>, 450>>, <<<<"C", "-">>, 400>>,
  <<<<"D", "+">>, 350>>, <<<<"D">>, 300>>, <<<<"D", "-">>, 250>>
  }

\* lines 117-122
grade_to_score == {
  <<<<"A", "+">>, 850>>, <<<<"A">>, 750>>, <<<<"A", "-">>, 700>>,
  <<<<"B", "+">>, 650>>, <<<<"B">>, 600>>, <<<<"B", "-">>, 550>>,
  <<<<"C", "+">>, 500>>, <<<<"C">>, 450>>, <<<<"C", "-">>, 400>>,
  <<<<"D", "+">>, 350>>, <<<<"D">>, 300>>, <<<<"D", "-">>, 250>>
  }

\* dict.get(key, default) of a dict given as its set of items
DictGet(items, key, default) ==
  IF \E e \in items : e[1] = key
  THEN (CHOOSE e \in items : e[1] = key)[2]
  ELSE default

\* match.group(1).replace(',', '') of the search of pattern p in s
AmountStr(p, s) == RemoveCommas(Group1(p, s, Search(p, s)))

RECURSIVE FirstParsed_LastWins(_, _, _)
\* mutant of FirstParsed: no break, so the last pattern that parses decides
FirstParsed_LastWins(patterns, s, k) ==
  IF k > Len(patterns) THEN 0
  ELSE LET match == Search(patterns[k], s)
           later == FirstParsed_LastWins(patterns, s, k + 1)
       IN  IF later # 0 THEN later
           ELSE IF match # NoMatch /\ IntParses(RemoveCommas(Group1(patterns[k], s, match)))
                THEN k
                ELSE 0

RECURSIVE FirstParsed(_, _, _)
\* The loop "for pattern in patterns: match = re.search(...); if match:
\* try: int(...); break; except ValueError: continue" from pattern k on:
\* the index of the pattern at which it breaks, 0 when it runs to the end.
FirstParsed(patterns, s, k) ==
  IF k > Len(patterns) THEN 0
  ELSE LET match == Search(patterns[k], s)
       IN  IF match # NoMatch /\ IntParses(RemoveCommas(Group1(patterns[k], s, match)))
           THEN k
           ELSE FirstParsed(patterns, s, k + 1)

\* mutant of IsAnnual: the test for 연\s*소득 is missing
IsAnnual_SalaryOnly(p) == Contains(p.items, Lit(<<"yeon", "bong">>))

\* '연봉' in pattern or '연\s*소득' in pattern
IsAnnual(p) ==
  \/ Contains(p.items, Lit(<<"yeon", "bong">>))
  \/ Contains(p.items, Lit(<<"yeon">>) \o Spaces \o Lit(<<"so", "deuk">>))

\* data['income'] after the loop of lines 62-73
ExtractIncome(s) ==
  LET k == FirstParsed(income_patterns, s, 1)
      amount_str == AmountStr(income_patterns[k], s)
  IN  IF k = 0 THEN 0
      ELSE IF IsAnnual(income_patterns[k])
           THEN IntValue(amount_str) \div 12
           ELSE IntValue(amount_str)

\* the value the loops of lines 84-92 and 167-175 leave in their field
ExtractAmount(patterns, s) ==
  LET k == FirstParsed(patterns, s, 1)
  IN  IF k = 0 THEN 0 ELSE IntValue(AmountStr(patterns[k], s))

\* str.isdigit(), over the model's alphabet
IsDigit(s) == s # <<>> /\ \A i \in 1..Len(s) : s[i] \in Digits

\* mutant of ExtractCredit: the pattern whose match stands leftmost in the
\* text decides, whatever the order of the list
ExtractCredit_TextOrder(s, k) ==
  LET found == {j \in 1..Len(credit_patterns) : Search(credit_patterns[j], s) # NoMatch}
      start(j) == Search(credit_patterns[j], s)[1]
      first == CHOOSE j \in found :
                 \A i \in found : start(j) < start(i) \/ (start(j) = start(i) /\ j <= i)
      value == Group1(credit_patterns[first], s, Search(credit_patterns[first], s))
  IN  IF found = {} THEN 0
      ELSE IF IsDigit(value) THEN (IF IntParses(value) THEN IntValue(value) ELSE 0)
      ELSE DictGet(grade_to_score, value, 600)

RECURSIVE ExtractCredit(_, _)
\* data['credit_score'] after the loop of lines 108-124, from pattern k on
ExtractCredit(s, k) ==
  IF k > Len(credit_patterns) THEN 0
  ELSE LET p == credit_patterns[k]
           m == Search(p, s)
           value == Group1(p, s, m)
       IN  IF m = NoMatch THEN ExtractCredit(s, k + 1)
           ELSE IF IsDigit(value) THEN IntValue(value)
           ELSE IF Match(grade_pattern, value) # NoMatch
                THEN DictGet(grade_to_score, value, 600)
                ELSE ExtractCredit(s, k + 1)

RECURSIVE ExtractCreditRaises(_, _)
\* the loop of lines 108-124 raises, from pattern k on: int(value) of line 113
\* stands in no try block, and refuses a capture of more than MaxStrDigits
\* digits with ValueError
ExtractCreditRaises(s, k) ==
  IF k > Len(credit_patterns) THEN FALSE
  ELSE LET p == credit_patterns[k]
           m == Search(p, s)
           value == Group1(p, s, m)
       IN  IF m = NoMatch THEN ExtractCreditRaises(s, k + 1)
           ELSE IF IsDigit(value) THEN ~IntParses(value)
           ELSE IF Match(grade_pattern, value) # NoMatch THEN FALSE
                ELSE ExtractCreditRaises(s, k + 1)

\* mutant of DeriveSavings: the guard of line 95 is missing
DeriveSavings_Unguarded(income, expense) == income - expense

\* mutant of DeriveSavings: a negative difference is clamped to 0
DeriveSavings_Clamped(income, expense) ==
  IF income > expense /\ expense > 0 THEN income - expense ELSE 0

\* data['savings'] after lines 95-96
DeriveSavings(income, expense) ==
  IF income > 0 /\ expense > 0 THEN income - expense ELSE 0

\* mutant of parse_financial_data: assets holds only the matched categories
parse_financial_data_sparse(s) ==
  LET income == ExtractIncome(s)
      expense == ExtractAmount(expense_patterns, s)
  IN  [income |-> income,
       expense |-> expense,
       savings |-> DeriveSavings(income, expense),
       credit_score |-> ExtractCredit(s, 1),
       assets |-> [t \in {u \in DOMAIN asset_patterns : FirstParsed(asset_patterns[u], s, 1) # 0}
                     |-> ExtractAmount(asset_patterns[t], s)],
       transactions |-> <<>>]

\* mutant of parse_financial_data: the dict is not made anew, so that a
\* field without a match keeps the value of the document before
parse_financial_data_stale(s) ==
  LET income == IF ExtractIncome(s) = 0 /\ all_data # <<>>
                THEN all_data[Len(all_data)].income ELSE ExtractIncome(s)
      expense == IF ExtractAmount(expense_patterns, s) = 0 /\ all_data # <<>>
                 THEN all_data[Len(all_data)].expense
                 ELSE ExtractAmount(expense_patterns, s)
  IN  [income |-> income,
       expense |-> expense,
       savings |-> DeriveSavings(income, expense),
       credit_score |-> ExtractCredit(s, 1),
       assets |-> [t \in DOMAIN asset_patterns |-> ExtractAmount(asset_patterns[t], s)],
       transactions |-> <<>>]

\* mutant of parse_financial_data: the loop over the asset categories ends at
\* the first category that got a value
parse_financial_data_one_asset(s) ==
  LET income == ExtractIncome(s)
      expense == ExtractAmount(expense_patterns, s)
      order == <<"checking", "savings", "investment", "pension", "isa", "government">>
      found == {i \in 1..Len(order) : FirstParsed(asset_patterns[order[i]], s, 1) # 0}
  IN  [income |-> income,
       expense |-> expense,
       savings |-> DeriveSavings(income, expense),
       credit_score |-> ExtractCredit(s, 1),
       assets |-> [t \in DOMAIN asset_patterns |->
                     IF \E i \in found : order[i] = t /\ \A j \in found : i <= j
                     THEN ExtractAmount(asset_patterns[t], s)
                     ELSE 0],
       transactions |-> <<>>]

\* lines 33-177
parse_financial_data(s) ==
  LET income == ExtractIncome(s)
      expense == ExtractAmount(expense_patterns, s)
  IN  [income |-> income,
       expense |-> expense,
       savings |-> DeriveSavings(income, expense),
       credit_score |-> ExtractCredit(s, 1),
       assets |-> [t \in DOMAIN asset_patterns |-> ExtractAmount(asset_patterns[t], s)],
       transactions |-> <<>>]

\* parse_financial_data(s) raises instead of returning: the income, expense and
\* asset loops catch ValueError (lines 72, 91, 174), the credit loop does not
parse_financial_data_raises(s) == ExtractCreditRaises(s, 1)

(***************************************************************************)
(* PDFParser.extract_transactions                                          *)
(***************************************************************************)
\* (\d{4}[-/]\d{1,2}[-/]\d{1,2})
date_pattern ==
  Pat(<<>>, <<Item(AsciiDigits, 4, 4), Item(DateSeparators, 1, 1),
              Item(AsciiDigits, 1, 2), Item(DateSeparators, 1, 1),
              Item(AsciiDigits, 1, 2)>>)

\* ([+-]?[0-9,]+)
amount_pattern == Pat(<<>>, <<Item(Signs, 0, 1), AtLeast(AmountChars, 1)>>)

\* each pattern is one group of alternative words
category_patterns == <<
      <<<<"geup", "yeo">>, <<"wol", "geup">>, <<"su", "ip">>, <<"so", "deuk">>>>,   \* 189: 급여|월급|수입|소득
      <<<<"sik", "bi">>, <<"eum", "sik">>, <<"sik", "sa">>, <<"oe", "sik">>>>,   \* 190: 식비|음식|식사|외식
      <<<<"gyo", "tong", "bi">>, <<"gyo", "tong">>, <<"ji", "ha", "cheol">>, <<"beo", "seu">>, <<"taek", "si">>>>,   \* 191: 교통비|교통|지하철|버스|택시
      <<<<"ju", "geo", "bi">>, <<"wol", "se">>, <<"jeon", "se">>, <<"gwan", "ri", "bi">>, <<"jip", "se">>>>,   \* 192: 주거비|월세|전세|관리비|집세
      <<<<"tong", "sin", "bi">>, <<"jeon", "hwa", "bi">>, <<"in", "teo", "net">>, <<"hyu", "dae", "pon">>>>,   \* 193: 통신비|전화비|인터넷|휴대폰
      <<<<"ui", "ryo", "bi">>, <<"byeong", "won">>, <<"yak">>, <<"chi", "ryo">>>>,   \* 194: 의료비|병원|약|치료
      <<<<"gyo", "yuk", "bi">>, <<"hak", "won">>, <<"gang", "ui">>, <<"do", "seo">>>>,   \* 195: 교육비|학원|강의|도서
      <<<<"mun", "hwa", "saeng", "hwal">>, <<"yeong", "hwa">>, <<"gong", "yeon">>, <<"chwi", "mi">>>>,   \* 196: 문화생활|영화|공연|취미
      <<<<"syo", "ping">>, <<"ui", "ryu">>, <<"hwa", "jang", "pum">>, <<"saeng", "hwal", "yong", "pum">>>>,   \* 197: 쇼핑|의류|화장품|생활용품
      <<<<"jeo", "chuk">>, <<"jeok", "geum">>, <<"tu", "ja">>, <<"peon", "deu">>>>,   \* 198: 저축|적금|투자|펀드
      <<<<"bo", "heom">>, <<"bo", "heom", "ryo">>>>,   \* 199: 보험|보험료
      <<<<"ka", "deu", "dae", "geum">>, <<"dae", "chul", "sang", "hwan">>>>   \* 200: 카드대금|대출상환
  >>

\* the category of a line no pattern matches: 기타
OtherCategory == <<"gi", "ta">>

RECURSIVE FirstAlternative(_, _, _, _)
\* the first of the alternatives k.. that occurs at offset pos of s
FirstAlternative(alts, s, pos, k) ==
  IF k > Len(alts) THEN NoMatch
  ELSE IF OccursAt(alts[k], s, pos) THEN alts[k]
  ELSE FirstAlternative(alts, s, pos, k + 1)

\* re.search of a group of alternative words: group(1) of the match at the
\* leftmost offset at which an alternative occurs, the alternatives tried
\* there in their order
SearchAlternatives(alts, s) ==
  LET starts == {pos \in 0..(Len(s) - 1) :
                   \E k \in 1..Len(alts) : s[pos + 1] = alts[k][1] /\ OccursAt(alts[k], s, pos)}
  IN  IF starts = {} THEN NoMatch ELSE FirstAlternative(alts, s, Leftmost(starts), 1)

\* mutant of CategoryOf: the label that stands leftmost in the line decides,
\* whatever the order of the patterns
CategoryOf_Leftmost(line, k) ==
  LET w == SearchAlternatives(Concat(category_patterns), line)
  IN  IF w # NoMatch THEN w ELSE OtherCategory

RECURSIVE CategoryOf(_, _)
\* lines 215-220, from pattern k on
CategoryOf(line, k) ==
  IF k > Len(category_patterns) THEN OtherCategory
  ELSE LET w == SearchAlternatives(category_patterns[k], line)
       IN  IF w # NoMatch THEN w ELSE CategoryOf(line, k + 1)

\* mutant of SplitLines: the text is taken as one line
SplitLines_Whole(s) == <<s>>

RECURSIVE SplitLines(_)
\* text.split('\n')
SplitLines(s) ==
  IF \A i \in 1..Len(s) : s[i] # "\n" THEN <<s>>
  ELSE LET i == CHOOSE j \in 1..Len(s) : s[j] = "\n" /\ \A h \in 1..(j - 1) : s[h] # "\n"
       IN  <<SubSeq(s, 1, i - 1)>> \o SplitLines(SubSeq(s, i + 1, Len(s)))

\* str.strip()
Strip(s) ==
  IF \A i \in 1..Len(s) : s[i] \in Whitespace THEN <<>>
  ELSE LET a == CHOOSE j \in 1..Len(s) :
                  s[j] \notin Whitespace /\ \A h \in 1..(j - 1) : s[h] \in Whitespace
           b == CHOOSE j \in 1..Len(s) :
                  s[j] \notin Whitespace /\ \A h \in (j + 1)..Len(s) : s[h] \in Whitespace
       IN  SubSeq(s, a, b)

\* mutant of LineTransactions: the amount keeps its sign (no abs())
LineTransactions_Signed(line) ==
  LET date_match == Search(date_pattern, line)
      amount_match == Search(amount_pattern, line)
      amount_str == RemoveCommas(Group1(amount_pattern, line, amount_match))
  IN  IF date_match # NoMatch /\ amount_match # NoMatch
      THEN IF IntParses(amount_str)
           THEN <<[date |-> Group1(date_pattern, line, date_match),
                   category |-> CategoryOf(line, 1),
                   amount |-> IntValue(amount_str),
                   type |-> IF IntValue(amount_str) > 0 THEN "income" ELSE "expense",
                   description |-> Strip(line)]>>
           ELSE <<>>
      ELSE <<>>

\* mutant of LineTransactions: the type is income for amount >= 0
LineTransactions_ZeroIsIncome(line) ==
  LET date_match == Search(date_pattern, line)
      amount_match == Search(amount_pattern, line)
      amount_str == RemoveCommas(Group1(amount_pattern, line, amount_match))
  IN  IF date_match # NoMatch /\ amount_match # NoMatch
      THEN IF IntParses(amount_str)
           THEN <<[date |-> Group1(date_pattern, line, date_match),
                   category |-> CategoryOf(line, 1),
                   amount |-> Abs(IntValue(amount_str)),
                   type |-> IF IntValue(amount_str) >= 0 THEN "income" ELSE "expense",
                   description |-> Strip(line)]>>
           ELSE <<>>
      ELSE <<>>

\* the body of the loop over the lines, lines 205-233: the transactions
\* one line appends
LineTransactions(line) ==
  LET date_match == Search(date_pattern, line)
      amount_match == Search(amount_pattern, line)
      amount_str == RemoveCommas(Group1(amount_pattern, line, amount_match))
  IN  IF date_match # NoMatch /\ amount_match # NoMatch
      THEN IF IntParses(amount_str)
           THEN <<[date |-> Group1(date_pattern, line, date_match),
                   category |-> CategoryOf(line, 1),
                   amount |-> Abs(IntValue(amount_str)),
                   type |-> IF IntValue(amount_str) > 0 THEN "income" ELSE "expense",
                   description |-> Strip(line)]>>
           ELSE <<>>
      ELSE <<>>

RECURSIVE LinesTransactions(_)
LinesTransactions(lines) ==
  IF lines = <<>> THEN <<>>
  ELSE LineTransactions(Head(lines)) \o LinesTransactions(Tail(lines))

extract_transactions(s) == LinesTransactions(SplitLines(s))

(***************************************************************************)
(* combine_financial_data                                                  *)
(***************************************************************************)
\* d.get(key, default) of a dict given as a record
Get(d, key, default) == IF key \in DOMAIN d THEN d[key] ELSE default

RECURSIVE SumField(_, _)
\* sum(d.get(field, 0) for d in data_list)
SumField(data_list, field) ==
  IF data_list = <<>> THEN 0
  ELSE Get(Head(data_list), field, 0) + SumField(Tail(data_list), field)

\* mutant of MaxOf: the latest value
MaxOf_Latest(values) == values[Len(values)]

\* max(...) of a non-empty sequence of ints
MaxOf(values) ==
  CHOOSE v \in {values[i] : i \in 1..Len(values)} :
    \A i \in 1..Len(values) : values[i] <= v

\* max(d.get('credit_score', 0) for d in data_list)
MaxCredit(data_list) ==
  MaxOf([i \in 1..Len(data_list) |-> Get(data_list[i], "credit_score", 0)])

\* max(d.get('assets', {}).get(key, 0) for d in data_list)
MaxAsset(data_list, key) ==
  MaxOf([i \in 1..Len(data_list) |->
           IF "assets" \in DOMAIN data_list[i]
           THEN Get(data_list[i].assets, key, 0) ELSE 0])

RECURSIVE AllTransactions_Reversed(_)
\* mutant of AllTransactions: the documents taken in reverse order
AllTransactions_Reversed(data_list) ==
  IF data_list = <<>> THEN <<>>
  ELSE AllTransactions_Reversed(Tail(data_list)) \o Get(Head(data_list), "transactions", <<>>)

RECURSIVE AllTransactions(_)
\* the loop of lines 409-410
AllTransactions(data_list) ==
  IF data_list = <<>> THEN <<>>
  ELSE Get(Head(data_list), "transactions", <<>>) \o AllTransactions(Tail(data_list))

\* mutant of TransactionsTarget: combined['transactions'] is the list of the
\* first input profile
TransactionsTarget_Aliased(n) == 1

\* The list objects that the call of combine_financial_data on n profiles
\* touches are numbered: i, of 1..n, is the list data_list[i]['transactions'],
\* and n + 1 is the list that the literal [] of line 405 makes anew, which is
\* the one combined['transactions'] refers to
TransactionsTarget(n) == n + 1

RECURSIVE ExtendAll(_, _, _, _)
\* the loop of lines 409-410 from input i on, over the contents of the list
\* objects: list.extend changes the list object it is called on
ExtendAll(lists, target, n, i) ==
  IF i > n THEN lists
  ELSE ExtendAll([lists EXCEPT ![target] = @ \o lists[i]], target, n, i + 1)

\* the contents of the list objects when combine_financial_data returns
ListsAfterCombine(data_list) ==
  LET n == Len(data_list)
  IN  ExtendAll([r \in 1..(n + 1) |->
                   IF r <= n THEN Get(data_list[r], "transactions", <<>>) ELSE <<>>],
                TransactionsTarget(n), n, 1)

\* data_list as the caller finds it after combine_financial_data(data_list):
\* lines 392-403 read it with d.get only, lines 409-410 change one list
InputAfterCombine(data_list) ==
  IF data_list = <<>> THEN data_list
  ELSE SubSeq([i \in 1..Len(data_list) |->
                 [data_list[i] EXCEPT !.transactions = ListsAfterCombine(data_list)[i]]],
              1, Len(data_list))

\* the exception of a division by zero, as the outcome of a call
ZeroDivisionError == <<"ZeroDivisionError", "division by zero">>

\* mutant of combine_financial_data: no test of the empty list, so that the
\* first mean divides by len([]) = 0
combine_financial_data_Unguarded(data_list) ==
  IF data_list = <<>> THEN ZeroDivisionError
  ELSE Some([income |-> TrueDiv(SumField(data_list, "income"), Len(data_list)),
             expense |-> TrueDiv(SumField(data_list, "expense"), Len(data_list)),
             savings |-> TrueDiv(SumField(data_list, "savings"), Len(data_list)),
             credit_score |-> MaxCredit(data_list),
             assets |-> [t \in {"checking", "savings", "investment", "pension", "isa", "government"} |->
                           MaxAsset(data_list, t)],
             transactions |-> AllTransactions(data_list)])

\* mutant of combine_financial_data: the combined savings is derived anew from
\* the combined income and expense
combine_financial_data_DerivedSavings(data_list) ==
  IF data_list = <<>> THEN None
  ELSE Some([income |-> TrueDiv(SumField(data_list, "income"), Len(data_list)),
             expense |-> TrueDiv(SumField(data_list, "expense"), Len(data_list)),
             savings |-> TrueDiv(SumField(data_list, "income") - SumField(data_list, "expense"),
                                 Len(data_list)),
             credit_score |-> MaxCredit(data_list),
             assets |-> [t \in {"checking", "savings", "investment", "pension", "isa", "government"} |->
                           MaxAsset(data_list, t)],
             transactions |-> AllTransactions(data_list)])

combine_financial_data(data_list) ==
  IF data_list = <<>> THEN None
  ELSE Some([income |-> TrueDiv(SumField(data_list, "income"), Len(data_list)),
             expense |-> TrueDiv(SumField(data_list, "expense"), Len(data_list)),
             savings |-> TrueDiv(SumField(data_list, "savings"), Len(data_list)),
             credit_score |-> MaxCredit(data_list),
             assets |-> [checking |-> MaxAsset(data_list, "checking"),
                         savings |-> MaxAsset(data_list, "savings"),
                         investment |-> MaxAsset(data_list, "investment"),
                         pension |-> MaxAsset(data_list, "pension"),
                         isa |-> MaxAsset(data_list, "isa"),
                         government |-> MaxAsset(data_list, "government")],
             transactions |-> AllTransactions(data_list)])

(***************************************************************************)
(* Python floats.  A mean is held in the model as the exact quotient; the  *)
(* float it stands for is the double nearest to it.  A double is written   *)
(* [neg, int, frac]: its sign, its integer part and the binary digits      *)
(* after the point, without trailing zeros.                                *)
(***************************************************************************)
\* sys.float_info.mant_dig: the significant bits of a double
MantDig == 53

RECURSIVE BitLength(_)
\* int.bit_length() of n >= 0
BitLength(n) == IF n = 0 THEN 0 ELSE 1 + BitLength(n \div 2)

\* the positions of the digits of ds that are not d
Others(ds, d) == {i \in 1..Len(ds) : ds[i] # d}

\* the greatest of a set of positions, 0 for the empty set
Last(positions) ==
  IF positions = {} THEN 0 ELSE CHOOSE i \in positions : \A j \in positions : j <= i

\* the least of a set of positions, 0 for the empty set
First(positions) ==
  IF positions = {} THEN 0 ELSE CHOOSE i \in positions : \A j \in positions : i <= j

\* a sequence of digits without its trailing zeros
StripZeros(ds) == SubSeq(ds, 1, Last(Others(ds, 0)))

\* the number of zeros before the first non-zero digit
LeadingZeros(ds) ==
  IF Others(ds, 0) = {} THEN Len(ds) ELSE First(Others(ds, 0)) - 1

\* one unit in the last place added to digits in base b, with the carry out
AddUnit(ds, b) ==
  LET p == Last(Others(ds, b - 1))
  IN  [digits |-> [i \in 1..Len(ds) |-> IF i < p THEN ds[i] ELSE IF i = p THEN ds[i] + 1 ELSE 0],
       carry |-> IF p = 0 THEN 1 ELSE 0]

\* round to nearest, ties to even: int and bits are the digits kept, cmp is
\* the sign of (what was dropped - half a unit in the last place)
RoundHalfEven(neg, int, bits, cmp) ==
  LET last == IF bits = <<>> THEN int % 2 ELSE bits[Len(bits)]
      up == AddUnit(bits, 2)
  IN  IF cmp > 0 \/ (cmp = 0 /\ last = 1)
      THEN [neg |-> neg, int |-> int + up.carry, frac |-> StripZeros(up.digits)]
      ELSE [neg |-> neg, int |-> int, frac |-> StripZeros(bits)]

\* the binary digits after the point that a double with integer part int
\* has room for, when the digits start with zeros leading zeros
FractionBits(int, zeros) ==
  IF int > 0 THEN MantDig - BitLength(int) ELSE zeros + MantDig

\* the unit in the last place of the double x is 2^-UlpExponent(x)
UlpExponent(x) == FractionBits(x.int, LeadingZeros(x.frac))

RECURSIVE QuotientBits(_, _, _, _, _)
\* the binary digits of r / d, 0 <= r < d, after those of bits, up to need
\* significant ones more (zeros before the first one do not count unless
\* started), and the remainder left
QuotientBits(r, d, need, started, bits) ==
  IF need = 0 \/ r = 0 \/ Len(bits) < 0 THEN [bits |-> bits, rem |-> r]
  ELSE LET b == (2 * r) \div d
       IN  QuotientBits((2 * r) % d, d,
                        IF started \/ b = 1 THEN need - 1 ELSE need,
                        started \/ b = 1,
                        Append(bits, b))

\* the sign of a - b
Sign(a, b) == IF a > b THEN 1 ELSE IF a = b THEN 0 ELSE 0 - 1

\* the double nearest to the quotient q: float(num / den)
ToDouble(q) ==
  LET n == Abs(q.num)
      int == n \div q.den
      got == QuotientBits(n % q.den, q.den, MantDig - BitLength(int), int > 0, <<>>)
  IN  RoundHalfEven(q.num < 0, int, got.bits, Sign(2 * got.rem, q.den))

\* the decimal digits after the point of (c + 0.ds) / 2, c in {0, 1}, one
\* more than those of ds: what is carried into a digit is the parity of the
\* digit before it
Half(c, ds) ==
  SubSeq([i \in 1..(Len(ds) + 1) |->
            (10 * (IF i = 1 THEN c ELSE ds[i - 1] % 2)
               + (IF i <= Len(ds) THEN ds[i] ELSE 0)) \div 2],
         1, Len(ds) + 1)

RECURSIVE HalveFrom(_, _, _)
\* the decimal digits of 0.(bits[1] .. bits[i]) + 0.ds / 2^i
HalveFrom(bits, i, ds) ==
  IF i = 0 \/ Len(ds) < 0 THEN ds ELSE HalveFrom(bits, i - 1, Half(bits[i], ds))

\* the decimal digits of the binary fraction 0.bits, which are exact and as
\* many as the bits
BitsToDecimal(bits) == HalveFrom(bits, Len(bits), <<>>)

\* digits ds followed by zeros up to length n
Pad(ds, n) == [i \in 1..n |-> IF i <= Len(ds) THEN ds[i] ELSE 0]

\* the sign of 0.a - 0.b for digit sequences of one length
CompareDigits(a, b) ==
  LET i == First({j \in 1..Len(a) : a[j] # b[j]})
  IN  IF i = 0 THEN 0 ELSE Sign(a[i], b[i])

RECURSIVE ShortestDigits(_, _, _, _)
\* float_repr_style 'short': the fewest decimal digits after the point, k
\* or more, that still round to the double, which has the exact digits D
\* after the point and half a unit in the last place of digits H (as long
\* as D); even tells that the double's last bit is 0, so that a decimal on
\* the edge rounds to it.  The candidates of k digits are D cut after k
\* digits, which is below by 0.below, and the next decimal of k digits,
\* which is above by 0.above = 10^-k - 0.below.  The result is the digits
\* and the carry into the integer part.
ShortestDigits(D, H, even, k) ==
  LET m == Last(Others(D, 0))
      below == [i \in 1..Len(D) |-> IF i <= k THEN 0 ELSE D[i]]
      above == [i \in 1..Len(D) |->
                  IF i <= k \/ i > m THEN 0 ELSE IF i < m THEN 9 - D[i] ELSE 10 - D[i]]
      down == CompareDigits(below, H) < 0 \/ (even /\ CompareDigits(below, H) = 0)
      up == CompareDigits(above, H) < 0 \/ (even /\ CompareDigits(above, H) = 0)
      nearer == CompareDigits(below, above)
      kept == SubSeq(D, 1, k)
  IN  IF k >= m THEN [digits |-> SubSeq(D, 1, m), carry |-> 0]
      ELSE IF down /\ (~up \/ nearer < 0 \/ (nearer = 0 /\ kept[k] % 2 = 0))
      THEN [digits |-> kept, carry |-> 0]
      ELSE IF up THEN AddUnit(kept, 10)
      ELSE ShortestDigits(D, H, even, k + 1)

\* the decimal digits after the point of 2 * 0.ds: a digit takes a carry
\* when the digit after it is 5 or more
Twice(ds) ==
  SubSeq([i \in 1..Len(ds) |->
            (2 * ds[i] + (IF i < Len(ds) /\ ds[i + 1] >= 5 THEN 1 ELSE 0)) % 10],
         1, Len(ds))

RECURSIVE DecimalBits(_, _, _, _)
\* the binary digits of 0.ds after those of bits, up to need significant
\* ones more, and the decimal digits left
DecimalBits(ds, need, started, bits) ==
  IF need = 0 \/ Others(ds, 0) = {} \/ Len(bits) < 0 THEN [bits |-> bits, rest |-> ds]
  ELSE LET b == IF ds[1] >= 5 THEN 1 ELSE 0
       IN  DecimalBits(Twice(ds), IF started \/ b = 1 THEN need - 1 ELSE need,
                       started \/ b = 1, Append(bits, b))

\* the sign of 0.ds - 1/2
CompareHalf(ds) ==
  IF ds = <<>> \/ ds[1] < 5 THEN 0 - 1
  ELSE IF ds[1] > 5 \/ Others(Tail(ds), 0) # {} THEN 1 ELSE 0

\* float() of the decimal int.ds: the double nearest to it
DecimalToDouble(neg, int, ds) ==
  LET got == DecimalBits(ds, MantDig - BitLength(int), int > 0, <<>>)
  IN  RoundHalfEven(neg, int, got.bits, CompareHalf(got.rest))

RECURSIVE IntToDigits(_)
\* the decimal digits of n >= 0, most significant first
IntToDigits(n) ==
  IF n < 10 THEN <<n>> ELSE Append(IntToDigits(n \div 10), n % 10)

\* the character of a digit
DigitChar(d) == <<"0", "1", "2", "3", "4", "5", "6", "7", "8", "9">>[d + 1]

\* the characters of digits
DigitChars(ds) == [i \in 1..Len(ds) |-> DigitChar(ds[i])]

\* int.__repr__
int_repr(n) ==
  (IF n < 0 THEN <<"-">> ELSE <<>>) \o DigitChars(IntToDigits(Abs(n)))

\* float.__repr__ of the double x, below 10^16 and not below 10^-4 in
\* magnitude (or zero), where no exponent is written
float_repr(x) ==
  LET ulp == UlpExponent(x)
      D == Pad(BitsToDecimal(x.frac), ulp + 1)
      H == BitsToDecimal(Pad(<<>>, ulp) \o <<1>>)
      short == IF x.frac = <<>> THEN [digits |-> <<>>, carry |-> 0]
               ELSE ShortestDigits(D, H, Len(x.frac) < ulp, 1)
      after == StripZeros(short.digits)
  IN  (IF x.neg THEN <<"-">> ELSE <<>>)
      \o DigitChars(IntToDigits(x.int + short.carry))
      \o <<".">>
      \o DigitChars(IF after = <<>> THEN <<0>> ELSE after)

(***************************************************************************)
(* json.dumps(..., ensure_ascii=False, indent=2) and json.loads, over the  *)
(* Python values a profile is made of.  A text is a sequence of            *)
(* characters, as everywhere in the model.                                 *)
(***************************************************************************)
PyInt(n) == [type |-> "int", val |-> n]
PyFloat(x) == [type |-> "float", val |-> x]
PyStr(s) == [type |-> "str", val |-> s]
PyList(items) == [type |-> "list", val |-> items]
\* a dict, as the sequence of its items in insertion order
PyDict(items) == [type |-> "dict", val |-> items]
PyItem(key, value) == [key |-> key, value |-> value]

\* the value of d[key] for a dict that has the key
PyGet(d, key) ==
  d.val[First({i \in 1..Len(d.val) : d.val[i].key = key})].value

\* the float of a mean, which the model holds as the exact quotient
PyMean(q) == PyFloat(ToDouble(q))

\* the dict of lines 225-231
PyTransaction(t) ==
  PyDict(<<PyItem(<<"d", "a", "t", "e">>, PyStr(t.date)),
           PyItem(<<"c", "a", "t", "e", "g", "o", "r", "y">>, PyStr(t.category)),
           PyItem(<<"a", "m", "o", "u", "n", "t">>, PyInt(t.amount)),
           PyItem(<<"t", "y", "p", "e">>, PyStr(IF t.type = "income" THEN <<"i", "n", "c", "o", "m", "e">> ELSE <<"e", "x", "p", "e", "n", "s", "e">>)),
           PyItem(<<"d", "e", "s", "c", "r", "i", "p", "t", "i", "o", "n">>, PyStr(t.description))>>)

\* the Python value of income, expense and savings: an int in the profile of
\* a document, the float of a mean in a combined profile
PyFlow(x, mean) == IF mean THEN PyMean(x) ELSE PyInt(x)

\* a profile as a dict
PyProfileWith(p, mean) ==
  PyDict(<<PyItem(<<"i", "n", "c", "o", "m", "e">>, PyFlow(p.income, mean)),
           PyItem(<<"e", "x", "p", "e", "n", "s", "e">>, PyFlow(p.expense, mean)),
           PyItem(<<"s", "a", "v", "i", "n", "g", "s">>, PyFlow(p.savings, mean)),
           PyItem(<<"c", "r", "e", "d", "i", "t", "_", "s", "c", "o", "r", "e">>, PyInt(p.credit_score)),
           PyItem(<<"a", "s", "s", "e", "t", "s">>,
                  PyDict(<<PyItem(<<"c", "h", "e", "c", "k", "i", "n", "g">>, PyInt(p.assets.checking)),
                           PyItem(<<"s", "a", "v", "i", "n", "g", "s">>, PyInt(p.assets.savings)),
                           PyItem(<<"i", "n", "v", "e", "s", "t", "m", "e", "n", "t">>, PyInt(p.assets.investment)),
                           PyItem(<<"p", "e", "n", "s", "i", "o", "n">>, PyInt(p.assets.pension)),
                           PyItem(<<"i", "s", "a">>, PyInt(p.assets.isa)),
                           PyItem(<<"g", "o", "v", "e", "r", "n", "m", "e", "n", "t">>, PyInt(p.assets.government))>>)),
           PyItem(<<"t", "r", "a", "n", "s", "a", "c", "t", "i", "o", "n", "s">>,
                  PyList([i \in 1..Len(p.transactions) |-> PyTransaction(p.transactions[i])]))>>)

\* the dict of lines 35-49, of ints
PyDocument(p) == PyProfileWith(p, FALSE)

\* the dict of lines 392-406, whose means are floats
PyCombined(p) == PyProfileWith(p, TRUE)

\* json.encoder.ESCAPE_DCT, for the characters of the model
EscapeChar(c) ==
  IF c = "\"" THEN <<"\\", "\"">>
  ELSE IF c = "\\" THEN <<"\\", "\\">>
  ELSE IF c = "\n" THEN <<"\\", "n">>
  ELSE IF c = "\r" THEN <<"\\", "r">>
  ELSE IF c = "\t" THEN <<"\\", "t">>
  ELSE <<c>>

RECURSIVE Escape(_, _, _)
\* the characters of s from the i-th on, escaped, after out
Escape(s, i, out) ==
  IF i > Len(s) \/ Len(out) < 0 THEN out ELSE Escape(s, i + 1, out \o EscapeChar(s[i]))

\* mutant of encode_basestring: nothing escaped
encode_basestring_raw(s) == <<"\"">> \o s \o <<"\"">>

\* json.encoder.encode_basestring
encode_basestring(s) == <<"\"">> \o Escape(s, 1, <<>>) \o <<"\"">>

\* the newline and the indentation of a nesting level, indent=2
NewlineIndent(level) == <<"\n">> \o [i \in 1..(2 * level) |-> " "]

RECURSIVE json_dumps(_, _)
RECURSIVE DumpItems(_, _, _, _, _)
\* the items of a dict or of a list, from the i-th on, each on a line of
\* its own, with ',' between them
DumpItems(container, items, i, level, out) ==
  IF i > Len(items) \/ Len(out) < 0 THEN out
  ELSE DumpItems(container, items, i + 1, level,
         out \o (IF i > 1 THEN <<",">> ELSE <<>>) \o NewlineIndent(level)
             \o (IF container = "dict"
                 THEN encode_basestring(items[i].key) \o <<":", " ">>
                        \o json_dumps(items[i].value, level)
                 ELSE json_dumps(items[i], level)))

\* the text of value, which is nested level deep
json_dumps(value, level) ==
  IF value.type = "int" THEN int_repr(value.val)
  ELSE IF value.type = "float" THEN float_repr(value.val)
  ELSE IF value.type = "str" THEN encode_basestring(value.val)
  ELSE LET open == IF value.type = "dict" THEN "{" ELSE "["
           close == IF value.type = "dict" THEN "}" ELSE "]"
       IN  IF value.val = <<>> THEN <<open, close>>
           ELSE <<open>> \o DumpItems(value.type, value.val, 1, level + 1, <<>>)
                  \o NewlineIndent(level) \o <<close>>
\* json.JSONDecodeError, as the outcome of a parse
JSONDecodeError == [ok |-> FALSE, value |-> <<>>, next |-> 0]

\* a value parsed, and the position after it
Parsed(value, next) == [ok |-> TRUE, value |-> value, next |-> next]

\* json.decoder.WHITESPACE
JsonWhitespace == {" ", "\t", "\n", "\r"}

\* the characters below U+0020 that the model has, which a string holds
\* only escaped
ControlChars == {"\t", "\n", "\r"}

RECURSIVE SkipWhitespace(_, _)
\* the first position from i on that holds no whitespace
SkipWhitespace(T, i) ==
  IF i <= Len(T) /\ T[i] \in JsonWhitespace THEN SkipWhitespace(T, i + 1) ELSE i

\* json.decoder.BACKSLASH, for the escapes that are one character long
Unescape(c) ==
  IF c = "n" THEN <<"\n">>
  ELSE IF c = "r" THEN <<"\r">>
  ELSE IF c = "t" THEN <<"\t">>
  ELSE IF c \in {"\"", "\\", "/"} THEN <<c>>
  ELSE <<>>

RECURSIVE ParseString(_, _, _)
\* json.decoder.py_scanstring: the string that goes on at position i, its
\* characters so far being out
ParseString(T, i, out) ==
  IF i > Len(T) \/ Len(out) < 0 THEN JSONDecodeError
  ELSE IF T[i] = "\"" THEN Parsed(PyStr(out), i + 1)
  ELSE IF T[i] \in ControlChars THEN JSONDecodeError
  ELSE IF T[i] # "\\" THEN ParseString(T, i + 1, Append(out, T[i]))
  ELSE IF i = Len(T) \/ Unescape(T[i + 1]) = <<>> THEN JSONDecodeError
  ELSE ParseString(T, i + 2, out \o Unescape(T[i + 1]))

RECURSIVE DigitsEnd(_, _)
\* the position after the digits that start at position i
DigitsEnd(T, i) ==
  IF i <= Len(T) /\ T[i] \in AsciiDigits THEN DigitsEnd(T, i + 1) ELSE i

\* the digits of a sequence of digit characters
DigitsOf(chars) == [i \in 1..Len(chars) |-> DigitValue(chars[i])]

\* json.scanner.NUMBER_RE, (-?(?:0|[1-9]\d*))(\.\d+)?, and the int or the
\* float of its match at position i (no exponent: none is written for the
\* numbers of the model)
ParseNumber(T, i) ==
  LET neg == i <= Len(T) /\ T[i] = "-"
      from == IF neg THEN i + 1 ELSE i
      to == IF from <= Len(T) /\ T[from] = "0" THEN from + 1 ELSE DigitsEnd(T, from)
      int == DigitsValue(SubSeq(T, from, to - 1), 0)
      point == to < Len(T) /\ T[to] = "." /\ T[to + 1] \in AsciiDigits
      end == DigitsEnd(T, to + 1)
  IN  IF to = from THEN JSONDecodeError
      ELSE IF point
      THEN Parsed(PyFloat(DecimalToDouble(neg, int, DigitsOf(SubSeq(T, to + 1, end - 1)))), end)
      ELSE Parsed(PyInt(IF neg THEN 0 - int ELSE int), to)

RECURSIVE ParseValue(_, _)
RECURSIVE ParseMembers(_, _, _)
RECURSIVE ParseElements(_, _, _)
\* json.decoder.JSONObject after '{' or ',': the members that follow at
\* position i, those before being items
ParseMembers(T, i, items) ==
  LET k == SkipWhitespace(T, i)
      key == IF k <= Len(T) /\ T[k] = "\"" THEN ParseString(T, k + 1, <<>>)
             ELSE JSONDecodeError
      colon == SkipWhitespace(T, key.next)
      value == IF key.ok /\ colon <= Len(T) /\ T[colon] = ":"
               THEN ParseValue(T, SkipWhitespace(T, colon + 1))
               ELSE JSONDecodeError
      after == SkipWhitespace(T, value.next)
      more == Append(items, PyItem(key.value.val, value.value))
  IN  IF ~value.ok \/ after > Len(T) THEN JSONDecodeError
      ELSE IF T[after] = "}" THEN Parsed(PyDict(more), after + 1)
      ELSE IF T[after] = "," THEN ParseMembers(T, after + 1, more)
      ELSE JSONDecodeError

\* json.decoder.JSONArray after '[' or ',': the elements that follow at
\* position i, those before being items
ParseElements(T, i, items) ==
  LET value == ParseValue(T, SkipWhitespace(T, i))
      after == SkipWhitespace(T, value.next)
      more == Append(items, value.value)
  IN  IF ~value.ok \/ after > Len(T) THEN JSONDecodeError
      ELSE IF T[after] = "]" THEN Parsed(PyList(more), after + 1)
      ELSE IF T[after] = "," THEN ParseElements(T, after + 1, more)
      ELSE JSONDecodeError

\* json.scanner.py_make_scanner: the value that starts at position i
ParseValue(T, i) ==
  IF i > Len(T) THEN JSONDecodeError
  ELSE IF T[i] = "\"" THEN ParseString(T, i + 1, <<>>)
  ELSE IF T[i] = "{"
  THEN IF SkipWhitespace(T, i + 1) <= Len(T) /\ T[SkipWhitespace(T, i + 1)] = "}"
       THEN Parsed(PyDict(<<>>), SkipWhitespace(T, i + 1) + 1)
       ELSE ParseMembers(T, i + 1, <<>>)
  ELSE IF T[i] = "["
  THEN IF SkipWhitespace(T, i + 1) <= Len(T) /\ T[SkipWhitespace(T, i + 1)] = "]"
       THEN Parsed(PyList(<<>>), SkipWhitespace(T, i + 1) + 1)
       ELSE ParseElements(T, i + 1, <<>>)
  ELSE IF T[i] = "-" \/ T[i] \in AsciiDigits THEN ParseNumber(T, i)
  ELSE JSONDecodeError

\* json.loads: the value of the whole text, or JSONDecodeError
json_loads(T) ==
  LET value == ParseValue(T, SkipWhitespace(T, 1))
  IN  IF value.ok /\ SkipWhitespace(T, value.next) > Len(T) THEN value
      ELSE JSONDecodeError

RECURSIVE PyEqual(_, _)
\* a == b of Python: numbers by value, strings and lists item by item, in
\* order, dicts key by key, in any order
PyEqual(a, b) ==
  IF a.type \in {"int", "float"}
  THEN /\ b.type \in {"int", "float"}
       /\ (IF a.type = "int" THEN ToDouble([num |-> a.val, den |-> 1]) ELSE a.val)
            = (IF b.type = "int" THEN ToDouble([num |-> b.val, den |-> 1]) ELSE b.val)
  ELSE IF a.type # b.type THEN FALSE
  ELSE IF a.type = "str" THEN a.val = b.val
  ELSE IF a.type = "list"
  THEN /\ Len(a.val) = Len(b.val)
       /\ \A i \in 1..Len(a.val) : PyEqual(a.val[i], b.val[i])
  ELSE /\ {a.val[i].key : i \in 1..Len(a.val)} = {b.val[i].key : i \in 1..Len(b.val)}
       /\ \A i \in 1..Len(a.val) : PyEqual(a.val[i].value, PyGet(b, a.val[i].key))
\* datetime.now().isoformat(): two instants, one of them on a whole second
Timestamps == {<<"2", "0", "2", "4", "-", "0", "1", "-", "2", "0", "T", "1", "0", ":", "3", "0", ":", "0", "0">>, <<"2", "0", "2", "4", "-", "0", "3", "-", "3", "1", "T", "2", "3", ":", "5", "9", ":", "5", "9", ".", "1", "2", "3", "4", "5", "6">>}

\* mutant of convert_to_json: only an absent filename becomes 'unknown', the
\* empty one is kept
convert_to_json_EmptyName(data_, filename_, now) ==
  json_dumps(
    PyDict(<<PyItem(<<"m", "e", "t", "a", "d", "a", "t", "a">>,
                    PyDict(<<PyItem(<<"g", "e", "n", "e", "r", "a", "t", "e", "d", "_", "a", "t">>, PyStr(now)),
                             PyItem(<<"s", "o", "u", "r", "c", "e", "_", "f", "i", "l", "e">>,
                                    PyStr(IF filename_ # None THEN Val(filename_)
                                          ELSE <<"u", "n", "k", "n", "o", "w", "n">>)),
                             PyItem(<<"v", "e", "r", "s", "i", "o", "n">>, PyStr(<<"1", ".", "0">>))>>)),
             PyItem(<<"f", "i", "n", "a", "n", "c", "i", "a", "l", "_", "d", "a", "t", "a">>, data_)>>),
    0)

\* lines 275-285: convert_to_json(data, filename), now being the time of the
\* call
convert_to_json(data_, filename_, now) ==
  json_dumps(
    PyDict(<<PyItem(<<"m", "e", "t", "a", "d", "a", "t", "a">>,
                    PyDict(<<PyItem(<<"g", "e", "n", "e", "r", "a", "t", "e", "d", "_", "a", "t">>, PyStr(now)),
                             PyItem(<<"s", "o", "u", "r", "c", "e", "_", "f", "i", "l", "e">>,
                                    PyStr(IF filename_ # None /\ Val(filename_) # <<>> THEN Val(filename_)
                                          ELSE <<"u", "n", "k", "n", "o", "w", "n">>)),
                             PyItem(<<"v", "e", "r", "s", "i", "o", "n">>, PyStr(<<"1", ".", "0">>))>>)),
             PyItem(<<"f", "i", "n", "a", "n", "c", "i", "a", "l", "_", "d", "a", "t", "a">>, data_)>>),
    0)

(***************************************************************************)
(* Uploaded files.  A file is readable or not (PdfReader raises), and a    *)
(* readable file is the sequence of the texts of its pages.                *)
(***************************************************************************)
File(pages) == [readable |-> TRUE, pages |-> pages]
Unreadable == [readable |-> FALSE, pages |-> <<>>]

\* lines 20-31
extract_text_from_pdf(pdf_file) ==
  IF pdf_file.readable THEN Some(Concat(pdf_file.pages)) ELSE None

\* page texts of transaction listings
TransactionPages == {
  <<"2", "0", "2", "4", "-", "0", "1", "-", "2", "0", " ">>,
  <<"2", "0", "2", "4", "/", "1", "-", "5", " ">>,
  <<"sik", "bi", " ">>,
  <<"geup", "yeo", " ">>,
  <<"-", "5", "0", "0", ",", "0", "0", "0", "won">>,
  <<"+", "0", " ">>,
  <<",">>,
  <<"\n">>
  }

\* page texts of income and expense summaries
IncomePages == {
  <<"geup", "yeo", ":", " ">>,
  <<"1", ",", "0", "0", "0", ",", "0", "0", "0", " ">>,
  <<"0", " ">>,
  <<"su", "ip", ":", " ", "2", ",", "0", "0", "0", ",", "0", "0", "0", "\n">>,
  <<"yeon", "bong", ":", " ", "3", "6", ",", "0", "0", "0", ",", "0", "0", "0", "\n">>,
  <<"yeon", " ", "so", "deuk", ":", " ">>,
  <<"ji", "chul", ":", " ", "2", ",", "8", "0", "0", ",", "0", "0", "0", "\n">>,
  <<",">>
  }

\* page texts of credit reports
CreditPages == {
  <<"sin", "yong", "jeom", "su", ":", " ">>,
  <<"sin", "yong", " ", "deung", "geup", ":", " ">>,
  <<"N", "I", "C", "E", " ", "7", "2", "0", "\n">>,
  <<"9">>,
  <<"A">>,
  <<"F">>,
  <<"+">>,
  <<"-">>,
  <<LongDigits>>
  }

\* page texts of asset statements
AssetPages == {
  <<"ip", "chul", "geum", ":", " ">>,
  <<"tu", "ja", " ">>,
  <<"cheong", "nyeon", "do", "yak", "gye", "jwa", ":", " ">>,
  <<"gae", "in", "hyeong", "toe", "jik", "yeon", "geum", ":", " ">>,
  <<"cheong", "nyeon", "hui", "mang", "jeok", "geum", ":", " ">>,
  <<"hui", "mang", "du", "bae", "tong", "jang", ":", " ">>,
  <<"5", ",", "0", "0", "0", "\n">>,
  <<"3", "0", "0", " ">>,
  <<",">>
  }

PageFamilies == {TransactionPages, IncomePages, CreditPages, AssetPages}

\* uploads of one document of at most MaxPages pages of one family
SingleUploads ==
  {<<File(pages)>> : pages \in UNION {SeqUpTo(family, MaxPages) : family \in PageFamilies}}

\* three monthly statements
JanuaryFile == File(<<
  <<"geup", "yeo", ":", " ", "3", ",", "0", "0", "0", ",", "0", "0", "0", "\n", "ji", "chul", ":", " ", "2", ",", "8", "0", "0", ",", "0", "0", "0", "\n">>,
  <<"sin", "yong", "jeom", "su", ":", " ", "7", "2", "0", "\n", "ip", "chul", "geum", ":", " ", "5", ",", "0", "0", "0", ",", "0", "0", "0", "\n">>,
  <<"2", "0", "2", "4", "-", "0", "1", "-", "1", "5", " ", "geup", "yeo", " ", "3", ",", "5", "0", "0", ",", "0", "0", "0", "won", "\n", "2", "0", "2", "4", "-", "0", "1", "-", "2", "0", " ", "sik", "bi", " ", "-", "5", "0", "0", ",", "0", "0", "0", "won", "\n">>
  >>)
FebruaryFile == File(<<
  <<"su", "ip", ":", " ", "3", ",", "5", "0", "0", ",", "0", "0", "0", "\n", "ji", "chul", ":", " ", "2", ",", "8", "0", "0", ",", "0", "0", "0", "\n", "sin", "yong", " ", "deung", "geup", ":", " ", "A", "+", "\n">>,
  <<"ip", "chul", "geum", ":", " ", "4", ",", "0", "0", "0", ",", "0", "0", "0", "\n", "jeok", "geum", ":", " ", "1", "5", ",", "0", "0", "0", ",", "0", "0", "0", "\n", "2", "0", "2", "4", "-", "0", "2", "-", "2", "5", " ", "gyo", "tong", "bi", " ", "-", "1", "4", "0", ",", "0", "0", "0", "won">>
  >>)
MarchFile == File(<<
  <<"yeon", "bong", ":", " ", "4", "8", ",", "0", "0", "0", ",", "0", "0", "0", "\n", "ji", "chul", ":", " ", "2", ",", "8", "0", "0", ",", "0", "0", "0", "\n", "K", "C", "B", " ", "6", "0", "0", "\n", "ip", "chul", "geum", ":", " ", "6", ",", "0", "0", "0", ",", "0", "0", "0", "\n">>,
  <<"-", "8", "0", "0", ",", "0", "0", "0", "won", " ", "2", "0", "2", "4", "/", "0", "3", "/", "3", "0", " ", "ju", "geo", "bi", "\n", "2", "0", "2", "4", "-", "0", "3", "-", "1", "5", " ", "geup", "yeo">>
  >>)
\* a readable file with no page, and one whose text holds no pattern
EmptyFile == File(<<>>)
BlankFile == File(<<<<"N", "/", "A", "\n">>>>)

\* a statement whose only line holds a quoted memo, a backslash and a tab
MemoFile == File(<<
  <<"2", "0", "2", "4", "-", "0", "4", "-", "0", "1", " ", "\"", "A", "\\", "B", "\"", "\t", "+", "1", ",", "5", "0", "0", "won", "\n">>
  >>)

\* a statement of an income and nothing else
IncomeOnlyFile == File(<<
  <<"su", "ip", ":", " ", "2", ",", "0", "0", "0", ",", "0", "0", "0", "\n">>
  >>)

DocFiles == {JanuaryFile, FebruaryFile, MarchFile, MemoFile, IncomeOnlyFile, EmptyFile,
             BlankFile, Unreadable}

\* uploads of at most MaxDocs monthly documents
MultiUploads == SeqUpTo(DocFiles, MaxDocs)

(***************************************************************************)
(* process_pdf_files, lines 311-341                                        *)
(***************************************************************************)
\* mutant of Truthy: only None is false, the empty text is taken as a text
Truthy_NotNone(t) == t # None

\* the truth value of a text that may be None
Truthy(t) == t # None /\ Val(t) # <<>>

Init ==
  /\ uploaded_files \in SingleUploads \cup MultiUploads
  /\ idx = 1
  /\ text = None
  /\ data = None
  /\ transactions = None
  /\ all_data = <<>>
  /\ result = None
  /\ pc = "next_file"
  /\ save_files = FALSE
  /\ filename = None
  /\ json_data = None

\* line 321: text = parser.extract_text_from_pdf(file)
ReadText ==
  /\ pc = "next_file"
  /\ idx <= Len(uploaded_files)
  /\ text' = extract_text_from_pdf(uploaded_files[idx])
  /\ pc' = "text_read"
  /\ UNCHANGED <<uploaded_files, idx, data, transactions, all_data, result, json_vars>>

\* mutant of SkipFile: a read that gave no text is tried again
SkipFile_Retry ==
  /\ pc = "text_read"
  /\ ~Truthy(text)
  /\ pc' = "next_file"
  /\ UNCHANGED <<uploaded_files, idx, text, data, transactions, all_data, result, json_vars>>

\* line 322, "if text:" is false: on to the next file
SkipFile ==
  /\ pc = "text_read"
  /\ ~Truthy(text)
  /\ idx' = idx + 1
  /\ pc' = "next_file"
  /\ UNCHANGED <<uploaded_files, text, data, transactions, all_data, result, json_vars>>

\* line 324: data = parser.parse_financial_data(text); an exception of the call
\* leaves process_pdf_files and process_pdf_to_json, which catch nothing
ParseFields ==
  /\ pc = "text_read"
  /\ Truthy(text)
  /\ IF parse_financial_data_raises(Val(text))
     THEN pc' = "raised" /\ UNCHANGED data
     ELSE data' = Some(parse_financial_data(Val(text))) /\ pc' = "parsed"
  /\ UNCHANGED <<uploaded_files, idx, text, transactions, all_data, result, json_vars>>

\* lines 327-328: transactions = parser.extract_transactions(text);
\* data['transactions'] = transactions
ExtractTransactions ==
  /\ pc = "parsed"
  /\ transactions' = Some(extract_transactions(Val(text)))
  /\ data' = Some([Val(data) EXCEPT !.transactions = extract_transactions(Val(text))])
  /\ pc' = "assembled"
  /\ UNCHANGED <<uploaded_files, idx, text, all_data, result, json_vars>>

\* mutant of AppendData: a profile in which nothing was found is not appended
AppendData_DropsEmpty ==
  /\ pc = "assembled"
  /\ all_data' = IF Val(data) = [parse_financial_data(<<>>) EXCEPT !.transactions = <<>>]
                 THEN all_data
                 ELSE Append(all_data, Val(data))
  /\ idx' = idx + 1
  /\ pc' = "next_file"
  /\ UNCHANGED <<uploaded_files, text, data, transactions, result, json_vars>>

\* line 334: all_data.append(data)
AppendData ==
  /\ pc = "assembled"
  /\ all_data' = Append(all_data, Val(data))
  /\ idx' = idx + 1
  /\ pc' = "next_file"
  /\ UNCHANGED <<uploaded_files, text, data, transactions, result, json_vars>>

\* lines 337-341, after the last file
Combine ==
  /\ pc = "next_file"
  /\ idx > Len(uploaded_files)
  /\ result' = IF all_data # <<>> THEN combine_financial_data(all_data) ELSE None
  /\ all_data' = InputAfterCombine(all_data)
  /\ pc' = "done"
  /\ UNCHANGED <<uploaded_files, idx, text, data, transactions, json_vars>>

Next ==
  \/ ReadText
  \/ SkipFile
  \/ ParseFields
  \/ ExtractTransactions
  \/ AppendData
  \/ Combine

Spec == Init /\ [][Next]_vars

(***************************************************************************)
(* process_pdf_to_json, lines 343-383: the loop of process_pdf_files, with *)
(* each profile and the combined profile saved as JSON when save_files.    *)
(***************************************************************************)
\* the names of the uploaded files: a name, the empty name and no name
FileNames == {Some(<<"j", "a", "n", ".", "p", "d", "f">>), Some(<<>>), None}

JsonInit ==
  /\ uploaded_files \in SingleUploads \cup MultiUploads
  /\ idx = 1
  /\ text = None
  /\ data = None
  /\ transactions = None
  /\ all_data = <<>>
  /\ result = None
  /\ pc = "next_file"
  /\ save_files \in BOOLEAN
  /\ filename = None
  /\ json_data = None

\* lines 287-309, save_json_file(data, filename) at the time now: the text
\* that is written, None when os.path.splitext(None) raises
save_json_file(data_, filename_, now) ==
  IF filename_ = None THEN None ELSE Some(convert_to_json(data_, filename_, now))

\* lines 363-370: all_data.append(data), then the profile saved under the
\* name of the file
SaveDocument ==
  /\ pc = "assembled"
  /\ all_data' = Append(all_data, Val(data))
  /\ IF save_files
     THEN \E name \in FileNames, now \in Timestamps :
            /\ filename' = name
            /\ json_data' = save_json_file(PyDocument(Val(data)), name, now)
     ELSE UNCHANGED <<filename, json_data>>
  /\ idx' = idx + 1
  /\ pc' = "next_file"
  /\ UNCHANGED <<uploaded_files, text, data, transactions, result, save_files>>

\* lines 373-383, after the last file: the combined profile, saved as
\* combined_financial_data
CombineAndSave ==
  /\ pc = "next_file"
  /\ idx > Len(uploaded_files)
  /\ result' = IF all_data # <<>> THEN combine_financial_data(all_data) ELSE None
  /\ IF all_data # <<>> /\ save_files
     THEN \E now \in Timestamps :
            /\ filename' = Some(<<"c", "o", "m", "b", "i", "n", "e", "d", "_", "f", "i", "n", "a", "n", "c", "i", "a", "l", "_", "d", "a", "t", "a">>)
            /\ json_data' = save_json_file(PyCombined(Val(combine_financial_data(all_data))),
                                           Some(<<"c", "o", "m", "b", "i", "n", "e", "d", "_", "f", "i", "n", "a", "n", "c", "i", "a", "l", "_", "d", "a", "t", "a">>), now)
     ELSE UNCHANGED <<filename, json_data>>
  /\ all_data' = InputAfterCombine(all_data)
  /\ pc' = "done"
  /\ UNCHANGED <<uploaded_files, idx, text, data, transactions, save_files>>

JsonNext ==
  \/ ReadText
  \/ SkipFile
  \/ ParseFields
  \/ ExtractTransactions
  \/ SaveDocument
  \/ CombineAndSave

JsonSpec == JsonInit /\ [][JsonNext]_vars

(***************************************************************************)
(* Properties.  The profile of the current document is Val(data) from      *)
(* pc = "parsed" on, its transactions are in place at pc = "assembled",    *)
(* and the combined profile is result at pc = "done".                      *)
(***************************************************************************)
\* the whole of s is one match of the pattern p
IsToken(p, s) ==
  /\ Match(p, s) # NoMatch
  /\ Match(p, s)[Len(p.items) + 1] = Len(s)

\* every category label of category_patterns
CategoryLabels ==
  UNION {{category_patterns[k][a] : a \in 1..Len(category_patterns[k])} :
           k \in 1..Len(category_patterns)}

\* line is '<date> <category label> <signed amount>원', the date (with one
\* kind of separator) ending at offset i and the label at offset j
HasLineShape(line, i, j) ==
  /\ 0 < i /\ i + 1 < j /\ j + 2 < Len(line)
  /\ IsToken(date_pattern, SubSeq(line, 1, i))
  /\ \A p, q \in 1..i : line[p] \in DateSeparators /\ line[q] \in DateSeparators
                           => line[p] = line[q]
  /\ line[i + 1] = " "
  /\ SubSeq(line, i + 2, j) \in CategoryLabels
  /\ line[j + 1] = " "
  /\ IsToken(amount_pattern, SubSeq(line, j + 2, Len(line) - 1))
  /\ IntParses(RemoveCommas(SubSeq(line, j + 2, Len(line) - 1)))
  /\ line[Len(line)] = "won"

\* the transactions, by index, recovered from the lines that strip to line
TransactionsOfLine(line) ==
  {k \in 1..Len(Val(transactions)) : Val(transactions)[k].description = line}

\* the lines of the text, by index, that strip to line
OccurrencesOfLine(line) ==
  {n \in 1..Len(SplitLines(Val(text))) : Strip(SplitLines(Val(text))[n]) = line}

\* C1: every line '<date> <category label> <signed amount>원' yields exactly
\* one transaction, whose date is the date token, whose category is the
\* label, whose amount is the magnitude of the signed amount token, and
\* whose type is expense when that token has a leading minus, else income.
C1_ShapedLineYieldsItsTransaction ==
  pc = "assembled" =>
    \A n \in 1..Len(SplitLines(Val(text))) :
      LET line == Strip(SplitLines(Val(text))[n])
      IN  \A i, j \in 1..Len(line) :
            HasLineShape(line, i, j) =>
              LET token == SubSeq(line, j + 2, Len(line) - 1)
              IN  /\ Cardinality(TransactionsOfLine(line))
                       = Cardinality(OccurrencesOfLine(line))
                  /\ \A k \in TransactionsOfLine(line) :
                       /\ Val(transactions)[k].date = SubSeq(line, 1, i)
                       /\ Val(transactions)[k].category = SubSeq(line, i + 2, j)
                       /\ Val(transactions)[k].amount = Abs(IntValue(RemoveCommas(token)))
                       /\ Val(transactions)[k].type
                            = IF token[1] = "-" THEN "expense" ELSE "income"

\* line holds a digit outside its date token
HasAmountBesidesDate(line) ==
  LET m == Search(date_pattern, line)
  IN  \E p \in 1..Len(line) :
        /\ line[p] \in AsciiDigits
        /\ p <= m[1] \/ p > m[Len(date_pattern.items) + 1]

\* C2: a transaction is emitted for a line only if the line holds a date
\* token and an amount token besides it: a line whose only digits are those
\* of its date yields none, and a line without a date token yields none.
C2_TransactionNeedsDateAndAmount ==
  pc = "assembled" =>
    \A n \in 1..Len(SplitLines(Val(text))) :
      LET line == SplitLines(Val(text))[n]
      IN  TransactionsOfLine(Strip(line)) # {} =>
            /\ Search(date_pattern, line) # NoMatch
            /\ HasAmountBesidesDate(line)

\* the search of pattern p in s matches and its group parses as an int
Captures(p, s) ==
  LET m == Search(p, s)
  IN  m # NoMatch /\ IntParses(RemoveCommas(Group1(p, s, m)))

\* the least index of a set of indexes, 0 for the empty set
Least(indexes) ==
  IF indexes = {} THEN 0 ELSE CHOOSE k \in indexes : \A j \in indexes : k <= j

\* the pattern that is first in list order among those that capture: its
\* index, 0 when none captures
Winner(patterns, s) ==
  Least({k \in 1..Len(patterns) : Captures(patterns[k], s)})

\* the credit pattern that is first in list order among those that match
CreditWinner(s) ==
  Least({k \in 1..Len(credit_patterns) : Search(credit_patterns[k], s) # NoMatch})

\* the token captured by credit pattern k
CreditToken(s, k) == Group1(credit_patterns[k], s, Search(credit_patterns[k], s))

\* the income labels that state a yearly amount: 연봉 and 연 소득, the
\* sixth and seventh of the list
AnnualIncomeIndexes == {6, 7}

\* the credit patterns that capture a letter grade: 신용등급 and 신용 등급
GradeCreditIndexes == {5, 6}

\* the score of a grade token: the table of the specification, 600 for
\* every other token
ScoreOfGrade(token) ==
  CASE token = <<"A", "+">> -> 850 [] token = <<"A">> -> 750 [] token = <<"A", "-">> -> 700
    [] token = <<"B", "+">> -> 650 [] token = <<"B">> -> 600 [] token = <<"B", "-">> -> 550
    [] token = <<"C", "+">> -> 500 [] token = <<"C">> -> 450 [] token = <<"C", "-">> -> 400
    [] token = <<"D", "+">> -> 350 [] token = <<"D">> -> 300 [] token = <<"D", "-">> -> 250
    [] OTHER -> 600

\* C3: first match wins per scalar field: income, expense and credit score
\* are decided by the pattern that is first in the field's list among those
\* that match and parse, whatever later patterns match and wherever the
\* labels stand in the text.
C3_FirstMatchWins ==
  pc = "parsed" =>
    LET i == Winner(income_patterns, Val(text))
        e == Winner(expense_patterns, Val(text))
        c == CreditWinner(Val(text))
    IN  /\ i # 0 =>
             Val(data).income \in
               {IntValue(AmountStr(income_patterns[i], Val(text))),
                IntValue(AmountStr(income_patterns[i], Val(text))) \div 12}
        /\ e # 0 =>
             Val(data).expense = IntValue(AmountStr(expense_patterns[e], Val(text)))
        /\ c # 0 =>
             Val(data).credit_score =
               IF c \in GradeCreditIndexes
               THEN ScoreOfGrade(CreditToken(Val(text), c))
               ELSE IntValue(CreditToken(Val(text), c))

\* C3 witness: 수입: 2,000,000 stands before 급여: 1,000,000 in the text and
\* the income is that of 급여, the first pattern of the list.
C3_Witness ==
  /\ pc = "parsed"
  /\ Val(text) = <<"su", "ip", ":", " ", "2", ",", "0", "0", "0", ",", "0", "0", "0", "\n", "geup", "yeo", ":", " ", "1", ",", "0", "0", "0", ",", "0", "0", "0", " ">>
  /\ Captures(income_patterns[1], Val(text))
  /\ Captures(income_patterns[2], Val(text))
  /\ Val(data).income = 1000000

\* C4: when the winning income pattern is an annual label the income is the
\* captured amount floor-divided by 12; when it is any other label the
\* captured amount is stored undivided, whatever else the text holds.
C4_AnnualToMonthly ==
  pc = "parsed" =>
    LET k == Winner(income_patterns, Val(text))
    IN  k # 0 =>
          Val(data).income =
            IF k \in AnnualIncomeIndexes
            THEN IntValue(AmountStr(income_patterns[k], Val(text))) \div 12
            ELSE IntValue(AmountStr(income_patterns[k], Val(text)))

\* C4 witness: 연봉: 36,000,000 wins and the income is 3,000,000.
C4_Witness ==
  /\ pc = "parsed"
  /\ Winner(income_patterns, Val(text)) = 6
  /\ AmountStr(income_patterns[6], Val(text)) = <<"3", "6", "0", "0", "0", "0", "0", "0">>
  /\ Val(data).income = 3000000

\* C5: when the credit field is won by a grade pattern the credit score is
\* the table value of the captured grade token, and 600 for a token that is
\* not in the table.
C5_GradeToScore ==
  pc = "parsed" =>
    LET k == CreditWinner(Val(text))
    IN  k \in GradeCreditIndexes =>
          Val(data).credit_score = ScoreOfGrade(CreditToken(Val(text), k))

\* C5 witness: the grade token A+ is captured and the score is 850.
C5_Witness ==
  /\ pc = "parsed"
  /\ CreditWinner(Val(text)) \in GradeCreditIndexes
  /\ CreditToken(Val(text), CreditWinner(Val(text))) = <<"A", "+">>
  /\ Val(data).credit_score = 850

\* C6: savings is income - expense only when income and expense are both
\* non-zero after extraction, and 0 in every other case.
C6_SavingsGuard ==
  pc = "parsed" =>
    Val(data).savings =
      IF Val(data).income # 0 /\ Val(data).expense # 0
      THEN Val(data).income - Val(data).expense
      ELSE 0

\* C6 witness: an income pattern captured, no expense pattern did, and the
\* savings are 0.
C6_Witness ==
  /\ pc = "parsed"
  /\ \E k \in 1..Len(income_patterns) : Captures(income_patterns[k], Val(text))
  /\ \A k \in 1..Len(expense_patterns) : ~Captures(expense_patterns[k], Val(text))
  /\ Val(data).income > 0
  /\ Val(data).savings = 0

ProfileKeys == {"income", "expense", "savings", "credit_score", "assets", "transactions"}
AssetKeys == {"checking", "savings", "investment", "pension", "isa", "government"}

\* C7: the profile parse_financial_data returns holds the six fields and the
\* six asset keys; a field or asset key none of whose patterns matches is 0,
\* and transactions is the empty list.
C7_Defaults ==
  pc = "parsed" =>
    /\ DOMAIN Val(data) = ProfileKeys
    /\ DOMAIN Val(data).assets = AssetKeys
    /\ (\A k \in 1..Len(income_patterns) : Search(income_patterns[k], Val(text)) = NoMatch)
         => Val(data).income = 0
    /\ (\A k \in 1..Len(expense_patterns) : Search(expense_patterns[k], Val(text)) = NoMatch)
         => Val(data).expense = 0
    /\ (Val(data).income = 0 \/ Val(data).expense = 0) => Val(data).savings = 0
    /\ (\A k \in 1..Len(credit_patterns) : Search(credit_patterns[k], Val(text)) = NoMatch)
         => Val(data).credit_score = 0
    /\ \A t \in AssetKeys :
         (\A k \in 1..Len(asset_patterns[t]) : Search(asset_patterns[t][k], Val(text)) = NoMatch)
           => Val(data).assets[t] = 0
    /\ Val(data).transactions = <<>>

\* C7 witness: a credit report, in which no pattern of income, expense or of
\* any asset category matches, and those fields are all 0.
C7_Witness ==
  /\ pc = "parsed"
  /\ Val(data).credit_score = 720
  /\ \A k \in 1..Len(income_patterns) : Search(income_patterns[k], Val(text)) = NoMatch
  /\ \A k \in 1..Len(expense_patterns) : Search(expense_patterns[k], Val(text)) = NoMatch
  /\ \A t \in AssetKeys : \A k \in 1..Len(asset_patterns[t]) :
       Search(asset_patterns[t][k], Val(text)) = NoMatch
  /\ Val(data).income = 0 /\ Val(data).expense = 0 /\ Val(data).savings = 0
  /\ \A t \in AssetKeys : Val(data).assets[t] = 0

RECURSIVE TotalUpTo(_, _)
\* the sum of a field over the first i profiles of all_data
TotalUpTo(field, i) ==
  IF i = 0 THEN 0 ELSE all_data[i][field] + TotalUpTo(field, i - 1)

\* the values of a field over all_data, as a sequence
FieldValues(field) == [i \in 1..Len(all_data) |-> all_data[i][field]]

C9_SnapshotFieldsAreMaxima ==
  (pc = "done" /\ all_data # <<>>) =>
    /\ \E i \in 1..Len(all_data) : Val(result).credit_score = all_data[i].credit_score
    /\ \A i \in 1..Len(all_data) : Val(result).credit_score >= all_data[i].credit_score
    /\ DOMAIN Val(result).assets = AssetKeys
    /\ \A t \in AssetKeys :
         /\ \E i \in 1..Len(all_data) : Val(result).assets[t] = all_data[i].assets[t]
         /\ \A i \in 1..Len(all_data) : Val(result).assets[t] >= all_data[i].assets[t]

\* C9 witness: checking balances 5,000,000, 4,000,000 and 6,000,000 combine
\* to 6,000,000, and credit scores 720, 850 and 600 to 850, which is neither
\* the latest nor the mean.
C9_Witness ==
  /\ pc = "done"
  /\ Len(all_data) = 3
  /\ [i \in 1..3 |-> all_data[i].assets.checking] = <<5000000, 4000000, 6000000>>
  /\ FieldValues("credit_score") = <<720, 850, 600>>
  /\ Val(result).assets.checking = 6000000
  /\ Val(result).credit_score = 850

RECURSIVE TransactionsBefore(_)
\* how many transactions the profiles before the i-th of all_data hold
TransactionsBefore(i) ==
  IF i = 1 THEN 0
  ELSE TransactionsBefore(i - 1) + Len(all_data[i - 1].transactions)

\* C10: the combined transactions are the per-document lists concatenated in
\* document order, each in its own order, nothing dropped or moved; their
\* number is the sum of the per-document numbers.
C10_TransactionsAreConcatenated ==
  (pc = "done" /\ all_data # <<>>) =>
    /\ Len(Val(result).transactions) = TransactionsBefore(Len(all_data) + 1)
    /\ \A i \in 1..Len(all_data) :
         \A j \in 1..Len(all_data[i].transactions) :
           Val(result).transactions[TransactionsBefore(i) + j] = all_data[i].transactions[j]

\* C10 witness: documents of 2, 1 and 2 transactions, the first document's
\* differing from the last one's, combine to 5.
C10_Witness ==
  /\ pc = "done"
  /\ Len(all_data) = 3
  /\ [i \in 1..3 |-> Len(all_data[i].transactions)] = <<2, 1, 2>>
  /\ all_data[1].transactions # all_data[3].transactions
  /\ Len(Val(result).transactions) = 5

\* C11: combine_financial_data of the empty list is None, not an exception,
\* and so is the result of a run in which no document gave a profile; a
\* result with means is the result of a non-empty list, so that no mean is
\* ever divided by zero.
C11_EmptyInputGivesNone ==
  pc = "done" =>
    /\ all_data = <<>> => combine_financial_data(all_data) = None /\ result = None
    /\ result # None =>
         /\ Len(all_data) > 0
         /\ \A field \in {"income", "expense", "savings"} : Val(result)[field].den > 0

\* C11 witness: a run over two documents, neither of which gave a profile,
\* ends with the empty list and no result.
C11_Witness ==
  /\ pc = "done"
  /\ Len(uploaded_files) = 2
  /\ all_data = <<>>
  /\ result = None

\* the profile of a file whose text is t: the fields, then the transactions
ProfileOfText(t) ==
  [parse_financial_data(t) EXCEPT !.transactions = extract_transactions(t)]

\* the profiles, in order, of a sequence of files that were read
ProfilesOf(files) ==
  [i \in 1..Len(files) |-> ProfileOfText(Val(extract_text_from_pdf(files[i])))]

\* what the aggregation of the profiles of files gives, None for no file
ResultOver(files) ==
  IF files = <<>> THEN None ELSE combine_financial_data(ProfilesOf(files))

\* the uploaded files whose read does not fail
ReadFiles ==
  SelectSeq(uploaded_files, LAMBDA f : extract_text_from_pdf(f) # None)

\* the uploaded files whose read gives a text that is not empty
TextFiles ==
  SelectSeq(uploaded_files, LAMBDA f : extract_text_from_pdf(f) \notin {None, Some(<<>>)})

\* C12 as stated: the result of a run is the aggregation of the profiles of
\* the documents whose read did not fail, in upload order, and None when
\* every read failed.
C12_ResultOverReadDocuments ==
  pc = "done" => result = ResultOver(ReadFiles)

\* C12, amended: a document is skipped when its read fails (None) and also
\* when it is read as the empty text; the other documents are processed, and
\* the result of a run is the aggregation of the profiles of the documents
\* with a non-empty text, in upload order, None when there is none (so when
\* every read failed).
C12_ResultOverDocumentsWithText ==
  pc = "done" =>
    /\ all_data = ProfilesOf(TextFiles)
    /\ result = ResultOver(TextFiles)
    /\ ReadFiles = <<>> => result = None

\* C12 witness: the second of three documents is unreadable, and the result
\* is that of the first and the third.
C12_Witness ==
  /\ pc = "done"
  /\ Len(uploaded_files) = 3
  /\ extract_text_from_pdf(uploaded_files[2]) = None
  /\ Len(all_data) = 2
  /\ all_data[1].income # all_data[2].income
  /\ result = ResultOver(<<uploaded_files[1], uploaded_files[3]>>)

\* the profile that the text of json_data was made from: the combined
\* profile at the end of a run, else the profile of the latest document
JsonSource ==
  IF pc = "done" THEN PyCombined(Val(result)) ELSE PyDocument(all_data[Len(all_data)])

\* the keys of a dict
PyKeys(d) == {d.val[i].key : i \in 1..Len(d.val)}

\* C13: the text returned by convert_to_json for a profile of the pipeline,
\* per-document or combined, parses as JSON, and the 'financial_data' member
\* of the parsed document equals the profile in income, expense, savings,
\* credit_score, every asset balance and the whole ordered transaction list.
C13_JsonRoundTrip ==
  (json_data # None /\ pc \in {"next_file", "done"}) =>
    LET loaded == json_loads(Val(json_data))
    IN  /\ loaded.ok
        /\ loaded.value.type = "dict"
        /\ <<"f", "i", "n", "a", "n", "c", "i", "a", "l", "_", "d", "a", "t", "a">> \in PyKeys(loaded.value)
        /\ PyEqual(PyGet(loaded.value, <<"f", "i", "n", "a", "n", "c", "i", "a", "l", "_", "d", "a", "t", "a">>), JsonSource)
        /\ PyEqual(JsonSource, PyGet(loaded.value, <<"f", "i", "n", "a", "n", "c", "i", "a", "l", "_", "d", "a", "t", "a">>))

\* C13 witness: a combined profile whose mean income is not a whole number
\* and whose transactions hold a quoted memo has been serialized.
C13_Witness ==
  /\ json_data # None
  /\ pc = "done"
  /\ Val(result).income.den = 3
  /\ \E i \in 1..Len(Val(result).transactions) :
       "\"" \in {Val(result).transactions[i].description[j] :
                   j \in 1..Len(Val(result).transactions[i].description)}

\* the text of the document that the i-th profile of all_data was made from
SourceText(i) == Val(extract_text_from_pdf(TextFiles[i]))

Malformed(p, s) ==
  LET m == Search(p, s)
  IN  m # NoMatch /\ ~IntParses(RemoveCommas(Group1(p, s, m)))

\* the int of the capture of pattern k of patterns
CapturedAmount(patterns, s, k) == IntValue(AmountStr(patterns[k], s))

\* a field whose list has a pattern with a malformed capture holds the
\* amount of the first pattern of the list that captures an int (whether
\* before or after the malformed one), and is left at 0 when none does
SkipsMalformed(patterns, s, value, yearly) ==
  (\E k \in 1..Len(patterns) : Malformed(patterns[k], s)) =>
    LET w == Winner(patterns, s)
    IN  IF w = 0 THEN value = 0
        ELSE IF w \in yearly THEN value = CapturedAmount(patterns, s, w) \div 12
        ELSE value = CapturedAmount(patterns, s, w)

\* The part of C15 about the numeric fields: when a pattern of income, of
\* expense or of an asset category matches with a capture that is no int, that
\* pattern is skipped and the next patterns of the field are tried, the field
\* staying 0 when none captures an int; a profile that is returned is whole,
\* and so is the list of transactions.
MalformedCaptureSkipped ==
  /\ pc \in {"parsed", "assembled"} =>
       /\ SkipsMalformed(income_patterns, Val(text), Val(data).income, AnnualIncomeIndexes)
       /\ SkipsMalformed(expense_patterns, Val(text), Val(data).expense, {})
       /\ \A t \in AssetKeys :
            SkipsMalformed(asset_patterns[t], Val(text), Val(data).assets[t], {})
       /\ DOMAIN Val(data) = ProfileKeys
       /\ DOMAIN Val(data).assets = AssetKeys
       /\ {Val(data).income, Val(data).expense, Val(data).credit_score} \subseteq Nat
  /\ pc = "assembled" =>
       /\ transactions # None
       /\ \A i \in 1..Len(Val(transactions)) : Val(transactions)[i].amount \in Nat

\* C15: a malformed capture of a numeric field is skipped and the next pattern
\* of the field tried, and parse_financial_data and extract_transactions
\* return for every text, no exception leaving them.  The second half fails:
\* after 신용점수 and a run of more than MaxStrDigits digits, int(value) of
\* line 113 raises ValueError and nothing catches it.
C15_SkippedAndNeverRaising ==
  /\ MalformedCaptureSkipped
  /\ pc # "raised"

\* the run that C15 excludes: the text is a credit score label and the long
\* run of digits, and parse_financial_data has raised
C15_Raised ==
  /\ pc = "raised"
  /\ data = None
  /\ Val(text) = <<"sin", "yong", "jeom", "su", ":", " ", LongDigits>>

\* the skipping happens: 급여 is followed by a lone comma and 수입 by 2,000,000; the
\* income is 2,000,000.
MalformedCaptureWitness ==
  /\ pc = "parsed"
  /\ Malformed(income_patterns[1], Val(text))
  /\ Winner(income_patterns, Val(text)) = 2
  /\ Val(data).income = 2000000

\* the 'financial_data' member of the document that the text of json_data is
SerializedProfile ==
  PyGet(json_loads(Val(json_data)).value, <<"f", "i", "n", "a", "n", "c", "i", "a", "l", "_", "d", "a", "t", "a">>)

\* a Python number is greater than or equal to 0
NonNegative(v) == IF v.type = "int" THEN v.val >= 0 ELSE ~v.val.neg

\* the numbers of a serialized profile under the keys, its asset balances and
\* the amounts of its transactions are greater than or equal to 0
NumbersNonNegative(fd, keys) ==
  /\ \A k \in keys : NonNegative(PyGet(fd, k))
  /\ LET assets == PyGet(fd, <<"a", "s", "s", "e", "t", "s">>)
     IN  \A i \in 1..Len(assets.val) : NonNegative(assets.val[i].value)
  /\ LET txs == PyGet(fd, <<"t", "r", "a", "n", "s", "a", "c", "t", "i", "o", "n", "s">>)
     IN  \A i \in 1..Len(txs.val) : NonNegative(PyGet(txs.val[i], <<"a", "m", "o", "u", "n", "t">>))

BothParsed(s) ==
  Winner(income_patterns, s) # 0 /\ Winner(expense_patterns, s) # 0

\* C17, as stated: whenever an income pattern and an expense pattern both
\* matched and parsed in a text, the profile of the text has savings = income
\* - expense.  It fails when a parsed amount is 0 (급여: 0): line 95 takes a 0
\* for a field that was not found and leaves savings at 0.
C17_SavingsWhenBothParsed ==
  (pc = "parsed" /\ BothParsed(Val(text))) =>
    Val(data).savings = Val(data).income - Val(data).expense

\* C17, amended: whenever an income pattern and an expense pattern both
\* matched and parsed and the income and the expense of the profile are both
\* non-zero, savings = income - expense, negative when the expense is the
\* larger (it is not clamped to 0); when either is 0, savings is 0.
C17_SavingsWhenBothNonZero ==
  (pc = "parsed" /\ BothParsed(Val(text))) =>
    IF Val(data).income # 0 /\ Val(data).expense # 0
    THEN Val(data).savings = Val(data).income - Val(data).expense
    ELSE Val(data).savings = 0

\* C17 witness: income 2,000,000 and expense 2,800,000 were both parsed and
\* savings is -800,000.
C17_Witness ==
  /\ pc = "parsed"
  /\ BothParsed(Val(text))
  /\ Val(data).income = 2000000
  /\ Val(data).expense = 2800000
  /\ Val(data).savings = 0 - 800000

\* 0 for an unknown score, or a score of the range 250 to 900
PlausibleScore(n) == n = 0 \/ n \in 250..900

\* C18: the credit_score of every profile that parse_financial_data returns,
\* and of every profile that combine_financial_data returns, is 0 or an int
\* of 250..900.  It fails: line 113 stores int(value) for whatever digits
\* follow the label, 9 for the text 신용점수: 9.
C18_CreditScoreInRange ==
  /\ pc = "parsed" => PlausibleScore(Val(data).credit_score)
  /\ (pc = "done" /\ result # None) => PlausibleScore(Val(result).credit_score)

\* the profile that C18 excludes: the score label is followed by the digit 9
\* alone, and credit_score is 9
C18_ScoreOutOfRange ==
  /\ pc = "parsed"
  /\ Val(text) = <<"sin", "yong", "jeom", "su", ":", " ", "9">>
  /\ Val(data).credit_score = 9

\* s[a..b] is a run of one or two digits
DatePart(s, a, b) ==
  /\ b - a \in {0, 1}
  /\ \A i \in a..b : s[i] \in AsciiDigits

\* four digits, a separator, a month part, the same separator, a day part
SameSeparatorDate(d) ==
  /\ Len(d) >= 8
  /\ \A i \in 1..4 : d[i] \in AsciiDigits
  /\ d[5] \in DateSeparators
  /\ \E j \in 7..(Len(d) - 1) :
       /\ DatePart(d, 6, j - 1)
       /\ d[j] = d[5]
       /\ DatePart(d, j + 1, Len(d))

\* C19: the date of every transaction that extract_transactions emits is four
\* digits, a separator, a month part, the same separator and a day part, the
\* separators being both "-" or both "/".  It fails: each separator of
\* date_pattern is [-/] on its own, and 2024/1-5 is emitted as a date.
C19_DateHasOneSeparator ==
  pc = "assembled" =>
    \A i \in 1..Len(Val(transactions)) : SameSeparatorDate(Val(transactions)[i].date)

\* the transaction that C19 excludes: its date is 2024/1-5
C19_MixedSeparators ==
  /\ pc = "assembled"
  /\ \E i \in 1..Len(Val(transactions)) :
       Val(transactions)[i].date = <<"2", "0", "2", "4", "/", "1", "-", "5">>

\* the amount token of a transaction: what amount_pattern matches in its
\* line, which is its description but for the white space at the ends
AmountToken(tx) ==
  Group1(amount_pattern, tx.description, Search(amount_pattern, tx.description))

\* the int of the amount token
TokenValue(tx) == IntValue(RemoveCommas(AmountToken(tx)))

\* the amount of a transaction is the absolute value of its token, and its
\* type is one of the two
MagnitudeAndType(tx) ==
  /\ tx.amount >= 0
  /\ tx.amount = Abs(TokenValue(tx))
  /\ tx.type \in {"income", "expense"}

\* C20, as stated: every transaction has the absolute value of its amount
\* token as amount and a type of income or expense, and the type is expense
\* exactly when the token has a leading minus sign, income when it has a plus
\* sign or none.  It fails for a token of value 0 without a minus sign (+0,
\* 0): line 228 gives income to amount > 0 only.
C20_TypeFromSign ==
  pc = "assembled" =>
    \A i \in 1..Len(Val(transactions)) :
      LET tx == Val(transactions)[i]
      IN  /\ MagnitudeAndType(tx)
          /\ tx.type = "expense" <=> AmountToken(tx)[1] = "-"

\* C20, amended: every transaction has the absolute value of its amount token
\* as amount and a type of income or expense; the type is income exactly when
\* the value of the token is greater than 0 (no minus sign, and not zero), and
\* expense when the token has a leading minus sign or its value is 0.
C20_TypeFromValue ==
  pc = "assembled" =>
    \A i \in 1..Len(Val(transactions)) :
      LET tx == Val(transactions)[i]
      IN  /\ MagnitudeAndType(tx)
          /\ tx.type = "expense" <=> (AmountToken(tx)[1] = "-" \/ TokenValue(tx) = 0)
          /\ tx.type = "income" <=> (AmountToken(tx)[1] # "-" /\ TokenValue(tx) > 0)

\* C20 witness: a transaction of the token -500,000 has amount 500,000 and
\* type expense.
C20_Witness ==
  /\ pc = "assembled"
  /\ \E i \in 1..Len(Val(transactions)) :
       /\ AmountToken(Val(transactions)[i]) = <<"-", "5", "0", "0", ",", "0", "0", "0">>
       /\ Val(transactions)[i].amount = 500000
       /\ Val(transactions)[i].type = "expense"

\* the category patterns, by index, of which a word occurs in the line
MatchingCategories(line) ==
  {k \in 1..Len(category_patterns) :
     \E a \in 1..Len(category_patterns[k]) : Contains(line, category_patterns[k][a])}

\* the offsets of the line at which a word of category pattern k occurs
LabelOffsets(line, k) ==
  {pos \in 0..Len(line) :
     \E a \in 1..Len(category_patterns[k]) : OccursAt(category_patterns[k][a], line, pos)}

\* C21: the category of every transaction is decided by the first category
\* pattern, in list order, of which a word occurs anywhere in the line,
\* wherever the words of later patterns stand: it is a word of that pattern
\* (the one at its leftmost occurrence), it is 기타 when no pattern matches,
\* and so it is always a word of the patterns or 기타.
C21_FirstCategoryPatternDecides ==
  pc = "assembled" =>
    \A i \in 1..Len(Val(transactions)) :
      LET tx == Val(transactions)[i]
          k == Least(MatchingCategories(tx.description))
      IN  /\ tx.category \in CategoryLabels \cup {OtherCategory}
          /\ IF k = 0 THEN tx.category = OtherCategory
             ELSE /\ \E a \in 1..Len(category_patterns[k]) :
                       tx.category = category_patterns[k][a]
                  /\ OccursAt(tx.category, tx.description,
                              Leftmost(LabelOffsets(tx.description, k)))

\* C21 witness: in a line 식비 stands before 급여, and the category is 급여, of
\* the first pattern.
C21_Witness ==
  /\ pc = "assembled"
  /\ \E i \in 1..Len(Val(transactions)) :
       /\ OccursAt(<<"sik", "bi">>, Val(transactions)[i].description, 0)
       /\ Contains(Val(transactions)[i].description, <<"geup", "yeo">>)
       /\ Val(transactions)[i].category = <<"geup", "yeo">>

\* the value that the patterns of asset category t alone give for the text:
\* the int captured by the first of them, in list order, that matches with a
\* capture that parses, 0 when none does
AssetOf(t, s) ==
  LET w == Winner(asset_patterns[t], s)
  IN  IF w = 0 THEN 0 ELSE CapturedAmount(asset_patterns[t], s, w)

\* C22: the value of each of the six asset categories is decided by the
\* patterns of that category alone, the first that matches and parses winning;
\* what the other categories, income, expense and the credit score match or
\* miss changes nothing in it.
C22_AssetsIndependent ==
  pc = "parsed" =>
    \A t \in AssetKeys : Val(data).assets[t] = AssetOf(t, Val(text))

\* C22 witness: the text 청년도약계좌: 300 matches a pattern of government and one
\* of checking and nothing else; both are 300, the other categories, income,
\* expense and credit_score are 0.
C22_Witness ==
  /\ pc = "parsed"
  /\ Val(data).assets.government = 300
  /\ Val(data).assets.checking = 300
  /\ \A t \in AssetKeys \ {"government", "checking"} : Val(data).assets[t] = 0
  /\ Val(data).income = 0 /\ Val(data).expense = 0 /\ Val(data).credit_score = 0

\* the credit patterns that capture digits: 신용점수, 신용 점수, KCB and NICE
NumericCreditIndexes == {1, 2, 3, 4}

\* the patterns among indexes, by index, that match the text
MatchingCredit(indexes, s) ==
  {k \in indexes : Search(credit_patterns[k], s) # NoMatch}

\* C23: one branch sets credit_score per text.  When a numeric pattern
\* matches, the score is the int captured by the first numeric pattern that
\* matches, whether or not a grade pattern matches too and wherever the grade
\* stands in the text; when only grade patterns match, it is the score of the
\* grade captured by the first of them; when none matches it is 0.
C23_NumericBeforeGrade ==
  pc = "parsed" =>
    LET numeric == MatchingCredit(NumericCreditIndexes, Val(text))
        grade == MatchingCredit(GradeCreditIndexes, Val(text))
    IN  Val(data).credit_score =
          IF numeric # {} THEN IntValue(CreditToken(Val(text), Least(numeric)))
          ELSE IF grade # {} THEN ScoreOfGrade(CreditToken(Val(text), Least(grade)))
          ELSE 0

\* C23 witness: the text is 신용 등급: A and then NICE 720; both branches have a
\* match, the grade standing first, and the score is 720.
C23_Witness ==
  /\ pc = "parsed"
  /\ MatchingCredit(GradeCreditIndexes, Val(text)) # {}
  /\ MatchingCredit(NumericCreditIndexes, Val(text)) = {4}
  /\ Search(credit_patterns[6], Val(text))[1] < Search(credit_patterns[4], Val(text))[1]
  /\ Val(data).credit_score = 720

\* the lines of the text, by index, that hold a date and whose amount token
\* is an int
TransactionLines(s) ==
  {n \in 1..Len(SplitLines(s)) :
     LET line == SplitLines(s)[n]
         m == Search(amount_pattern, line)
     IN  /\ Search(date_pattern, line) # NoMatch
         /\ m # NoMatch
         /\ IntParses(RemoveCommas(Group1(amount_pattern, line, m)))}

\* the i-th least index of a set of indexes
NthOf(indexes, i) ==
  CHOOSE n \in indexes : Cardinality({m \in indexes : m < n}) = i - 1

\* C24: the text is examined line by line: there is one transaction for each
\* line that holds a date and an amount token that is an int, and none for
\* any other line, so at most one per line; the transactions stand in the
\* order of their lines; the description of each is its line with the white
\* space at its ends stripped, and its date and its amount token are taken
\* from that line, never from another.
C24_OneTransactionPerLineInOrder ==
  pc = "assembled" =>
    LET lines == SplitLines(Val(text))
        from == TransactionLines(Val(text))
    IN  /\ Len(Val(transactions)) = Cardinality(from)
        /\ \A i \in 1..Len(Val(transactions)) :
             LET tx == Val(transactions)[i]
                 line == lines[NthOf(from, i)]
             IN  /\ tx.description = Strip(line)
                 /\ "\n" \notin {line[j] : j \in 1..Len(line)}
                 /\ Contains(line, tx.date)
                 /\ tx.amount = Abs(IntValue(RemoveCommas(
                      Group1(amount_pattern, line, Search(amount_pattern, line)))))

\* C24 witness: the first line holds the amount -500,000 and no date, the
\* second line a date; the one transaction is that of the second line, and
\* its amount is not 500,000.
C24_Witness ==
  /\ pc = "assembled"
  /\ Len(SplitLines(Val(text))) = 2
  /\ SplitLines(Val(text))[1] = <<"-", "5", "0", "0", ",", "0", "0", "0", "won">>
  /\ Len(Val(transactions)) = 1
  /\ Val(transactions)[1].description = <<"2", "0", "2", "4", "-", "0", "1", "-", "2", "0">>
  /\ Val(transactions)[1].amount = 2024

\* the keys of a dict, in the order of its items
PyKeyOrder(d) == [i \in 1..Len(d.val) |-> d.val[i].key]

\* the members of a serialized profile are those of a profile, of its assets
\* and of its transactions, none added, removed or renamed
ProfileShape(fd) ==
  /\ fd.type = "dict"
  /\ PyKeyOrder(fd) = <<<<"i", "n", "c", "o", "m", "e">>, <<"e", "x", "p", "e", "n", "s", "e">>, <<"s", "a", "v", "i", "n", "g", "s">>, <<"c", "r", "e", "d", "i", "t", "_", "s", "c", "o", "r", "e">>,
                        <<"a", "s", "s", "e", "t", "s">>, <<"t", "r", "a", "n", "s", "a", "c", "t", "i", "o", "n", "s">>>>
  /\ PyGet(fd, <<"a", "s", "s", "e", "t", "s">>).type = "dict"
  /\ PyKeyOrder(PyGet(fd, <<"a", "s", "s", "e", "t", "s">>))
       = <<<<"c", "h", "e", "c", "k", "i", "n", "g">>, <<"s", "a", "v", "i", "n", "g", "s">>, <<"i", "n", "v", "e", "s", "t", "m", "e", "n", "t">>, <<"p", "e", "n", "s", "i", "o", "n">>, <<"i", "s", "a">>,
           <<"g", "o", "v", "e", "r", "n", "m", "e", "n", "t">>>>
  /\ PyGet(fd, <<"t", "r", "a", "n", "s", "a", "c", "t", "i", "o", "n", "s">>).type = "list"
  /\ \A i \in 1..Len(PyGet(fd, <<"t", "r", "a", "n", "s", "a", "c", "t", "i", "o", "n", "s">>).val) :
       LET tx == PyGet(fd, <<"t", "r", "a", "n", "s", "a", "c", "t", "i", "o", "n", "s">>).val[i]
       IN  /\ tx.type = "dict"
           /\ PyKeyOrder(tx) = <<<<"d", "a", "t", "e">>, <<"c", "a", "t", "e", "g", "o", "r", "y">>, <<"a", "m", "o", "u", "n", "t">>, <<"t", "y", "p", "e">>,
                                 <<"d", "e", "s", "c", "r", "i", "p", "t", "i", "o", "n">>>>

\* C25: the document that convert_to_json makes of a profile and a filename
\* has the two members metadata and financial_data and no other; metadata
\* holds generated_at, source_file and version, version being 1.0 and
\* source_file the filename, or unknown for the empty filename; the document
\* for no filename is that for the empty one; financial_data holds the
\* members of the profile, none added, removed or renamed, with its values.
C25_SerializedShape ==
  (json_data # None /\ pc \in {"next_file", "done"}) =>
    LET doc == json_loads(Val(json_data)).value
        meta == PyGet(doc, <<"m", "e", "t", "a", "d", "a", "t", "a">>)
        fd == PyGet(doc, <<"f", "i", "n", "a", "n", "c", "i", "a", "l", "_", "d", "a", "t", "a">>)
    IN  /\ doc.type = "dict"
        /\ PyKeyOrder(doc) = <<<<"m", "e", "t", "a", "d", "a", "t", "a">>, <<"f", "i", "n", "a", "n", "c", "i", "a", "l", "_", "d", "a", "t", "a">>>>
        /\ meta.type = "dict"
        /\ PyKeyOrder(meta) = <<<<"g", "e", "n", "e", "r", "a", "t", "e", "d", "_", "a", "t">>, <<"s", "o", "u", "r", "c", "e", "_", "f", "i", "l", "e">>, <<"v", "e", "r", "s", "i", "o", "n">>>>
        /\ PyGet(meta, <<"g", "e", "n", "e", "r", "a", "t", "e", "d", "_", "a", "t">>).type = "str"
        /\ PyGet(meta, <<"g", "e", "n", "e", "r", "a", "t", "e", "d", "_", "a", "t">>).val \in Timestamps
        /\ PyGet(meta, <<"v", "e", "r", "s", "i", "o", "n">>) = PyStr(<<"1", ".", "0">>)
        /\ PyGet(meta, <<"s", "o", "u", "r", "c", "e", "_", "f", "i", "l", "e">>)
             = PyStr(IF Val(filename) = <<>> THEN <<"u", "n", "k", "n", "o", "w", "n">> ELSE Val(filename))
        /\ Val(filename) = <<>> =>
             \E now \in Timestamps : convert_to_json(JsonSource, None, now) = Val(json_data)
        /\ ProfileShape(fd)
        /\ PyEqual(fd, JsonSource)

\* C25 witness: the profile of a document with a transaction has been
\* serialized under the empty filename, and source_file is unknown.
C25_Witness ==
  /\ json_data # None
  /\ pc = "next_file"
  /\ filename = Some(<<>>)
  /\ all_data[Len(all_data)].transactions # <<>>
  /\ PyGet(PyGet(json_loads(Val(json_data)).value, <<"m", "e", "t", "a", "d", "a", "t", "a">>), <<"s", "o", "u", "r", "c", "e", "_", "f", "i", "l", "e">>)
       = PyStr(<<"u", "n", "k", "n", "o", "w", "n">>)

\* C26: a run of process_pdf_files is one pass over the uploaded documents,
\* in upload order.  A read is that of document idx and starts its handling;
\* the handling goes from the read to the field extraction, the transaction
\* extraction and the assembly, or ends at a read that gave no text; it is
\* left only for document idx + 1, the profile appended, so that no document
\* is read again and none is read before the one before it is done; the
\* aggregation is the last step, made once, when every document has been
\* handled.  (A run that an exception ends stops where it is raised.)
C26_SequentialSinglePass ==
  /\ [][/\ uploaded_files' = uploaded_files
        /\ pc' = "text_read" =>
             /\ pc = "next_file" /\ idx <= Len(uploaded_files) /\ idx' = idx
             /\ text' = extract_text_from_pdf(uploaded_files[idx])
        /\ pc' = "parsed" => pc = "text_read" /\ idx' = idx /\ text' = text
        /\ pc' = "assembled" => pc = "parsed" /\ idx' = idx /\ text' = text
        /\ pc' = "next_file" =>
             /\ idx' = idx + 1
             /\ \/ pc = "text_read" /\ all_data' = all_data
                \/ pc = "assembled" /\ all_data' = Append(all_data, Val(data))
        /\ idx' # idx => pc' = "next_file"
        /\ pc' = "done" =>
             /\ pc = "next_file" /\ idx = Len(uploaded_files) + 1 /\ idx' = idx
             /\ all_data' = all_data
        /\ pc # "done"]_vars
  /\ [](pc = "done" => idx = Len(uploaded_files) + 1)
  /\ [](Len(all_data) < idx /\ idx <= Len(uploaded_files) + 1)

\* C26 witness: a run over three documents is done; the second gave no text
\* and the two others gave their profiles.
C26_Witness ==
  /\ pc = "done"
  /\ Len(uploaded_files) = 3
  /\ ~uploaded_files[2].readable
  /\ Len(all_data) = 2

\* C27: combine_financial_data leaves its input as it was: the step of the
\* aggregation keeps the list of the profiles in length and order, and each
\* profile in income, expense, savings, credit_score, assets and transactions;
\* the combined profile is another value, whose transactions are in a list of
\* its own.
C27_CombineLeavesInput ==
  /\ [][pc' = "done" =>
          /\ Len(all_data') = Len(all_data)
          /\ \A i \in 1..Len(all_data) :
               /\ \A f \in ProfileKeys : all_data'[i][f] = all_data[i][f]
               /\ Len(all_data'[i].transactions) = Len(all_data[i].transactions)]_vars
  /\ [](pc = "done" => \A i \in 1..Len(all_data) : all_data[i] = ProfileOfText(SourceText(i)))

\* C27 witness: three profiles, of 2, 2 and 1 transactions, have been
\* combined, and the combined profile holds the five.
C27_Witness ==
  /\ pc = "done"
  /\ Len(all_data) = 3
  /\ Len(all_data[1].transactions) = 2
  /\ Len(all_data[3].transactions) = 1
  /\ Len(Val(result).transactions)
       = Len(all_data[1].transactions) + Len(all_data[2].transactions)
           + Len(all_data[3].transactions)
  /\ Len(Val(result).transactions) > 3

\* the difference of two quotients, as a quotient in lowest terms
Minus(a, b) == TrueDiv(a.num * b.den - b.num * a.den, a.den * b.den)

RECURSIVE GuardedTotalUpTo(_)
\* the sum over the first i profiles of all_data of income - expense, taken
\* for the profiles whose income and expense are both non-zero
GuardedTotalUpTo(i) ==
  IF i = 0 THEN 0
  ELSE (IF all_data[i].income # 0 /\ all_data[i].expense # 0
        THEN all_data[i].income - all_data[i].expense ELSE 0)
       + GuardedTotalUpTo(i - 1)

RECURSIVE IncomeOfTexts(_)
\* the sum of the incomes that parse_financial_data finds in the texts of a
\* sequence of files
IncomeOfTexts(files) ==
  IF files = <<>> THEN 0
  ELSE parse_financial_data(Val(extract_text_from_pdf(Head(files)))).income
       + IncomeOfTexts(Tail(files))

\* C29: at the end of a run the profiles are those of the documents whose
\* text is neither absent nor empty, one each, a document in whose text no
\* pattern matches giving an all-zero profile that counts; the combined
\* income is the sum of the incomes of these documents divided by their
\* number, and there is no combined profile when there is none.
C29_MeanOverDocumentsWithText ==
  pc = "done" =>
    /\ Len(all_data) = Len(TextFiles)
    /\ IF TextFiles = <<>> THEN result = None
       ELSE /\ result # None
            /\ Val(result).income.den > 0
            /\ Len(TextFiles) * Val(result).income.num
                 = IncomeOfTexts(TextFiles) * Val(result).income.den

\* C29 witness: of three documents one has an income of 3,000,000, one has no
\* text and one has a text in which nothing matches; the combined income is
\* 1,500,000, the half of the one income.
C29_Witness ==
  /\ pc = "done"
  /\ Len(uploaded_files) = 3
  /\ Len(TextFiles) = 2
  /\ \E i \in 1..3 : extract_text_from_pdf(uploaded_files[i]) \in {None, Some(<<>>)}
  /\ \E i \in 1..2 : all_data[i] = [parse_financial_data(<<>>) EXCEPT !.transactions = <<>>]
  /\ Val(result).income = [num |-> 1500000, den |-> 1]

\* the text is 'label: N' and nothing else but white space after N, N being
\* digits and commas that make an int
OnlyLabelled(s, label) ==
  /\ Len(s) > Len(label) + 2
  /\ SubSeq(s, 1, Len(label) + 2) = label \o <<":", " ">>
  /\ LET rest == SubSeq(s, Len(label) + 3, Len(s))
         token == Strip(rest)
     IN  /\ token # <<>>
         /\ \A i \in 1..Len(token) : token[i] \in AmountChars
         /\ OccursAt(token, rest, 0)
         /\ IntParses(RemoveCommas(token))

\* the int N of the text 'label: N'
LabelledAmount(s, label) ==
  IntValue(RemoveCommas(Strip(SubSeq(s, Len(label) + 3, Len(s)))))

\* the labels of one account each that two asset categories find
TwiceFound == {
  [label |-> <<"cheong", "nyeon", "do", "yak", "gye", "jwa">>, both |-> {"government", "checking"}],
  [label |-> <<"hui", "mang", "du", "bae", "tong", "jang">>, both |-> {"government", "checking"}],
  [label |-> <<"gae", "in", "hyeong", "toe", "jik", "yeon", "geum">>, both |-> {"isa", "pension"}],
  [label |-> <<"cheong", "nyeon", "hui", "mang", "jeok", "geum">>, both |-> {"government", "savings"}]
  }

\* C30: for a text whose only labelled amount is 청년도약계좌: N or 희망두배통장: N
\* the assets government and checking are both N; for 개인형퇴직연금: N isa and
\* pension are both N; for 청년희망적금: N government and savings are both N;
\* the other categories stay 0.
C30_OneAmountTwoCategories ==
  pc = "parsed" =>
    \A c \in TwiceFound :
      OnlyLabelled(Val(text), c.label) =>
        \A t \in AssetKeys :
          Val(data).assets[t] =
            IF t \in c.both THEN LabelledAmount(Val(text), c.label) ELSE 0

\* C30 witness: the text is 희망두배통장: 5,000, and government and checking are
\* both 5,000.
C30_Witness ==
  /\ pc = "parsed"
  /\ OnlyLabelled(Val(text), <<"hui", "mang", "du", "bae", "tong", "jang">>)
  /\ Val(data).assets.government = 5000
  /\ Val(data).assets.checking = 5000
  /\ Val(data).assets.savings = 0

====
